---- MODULE Spec2Model ----
(***************************************************************************)
(* Model of the robots (Bomberman) game server: the shared Server object   *)
(* (server.h), the per-client reader and writer (client-handler.h), the    *)
(* blocking queue (blocking-queue.h), the acceptor (client-acceptor.h) and *)
(* the game manager (game-manager.h).                                      *)
(*                                                                         *)
(* Every public operation of Server runs under Server::mutex, so each is   *)
(* one atomic action.  The game manager's thread-local computation of a    *)
(* turn is an action of its own between the two locked operations of the   *)
(* turn (collectLastMessagesFromClients and closeTurn).                    *)
(***************************************************************************)
EXTENDS Integers, Sequences, FiniteSets, TLC

(***************************************************************************)
(* Bounds of the model.                                                    *)
(***************************************************************************)
\* Number of TCP connections the acceptor accepts in one run.
MaxClients == 2
\* Number of games the game manager starts in one run.
MaxGames == 1
\* Number of connections that break in one run (the peer closes, resets or
\* sends a frame that does not parse).
MaxFaults == 1
\* Number of frames the writers get through to their peers in one run.
MaxSends == 1
\* Number of datagrams the GUI sends to the client in one run.
MaxDatagrams == 2
\* Number of frames the client reads from its server in one run.
MaxFrames == 3
\* The broadcasts of a run that starts late in a game.
MaxBroadcasts == 7

(***************************************************************************)
(* Program constants.                                                      *)
(***************************************************************************)
\* The threads of the boost::asio::thread_pool of main().
MAX_THREADS == 64
DIRECTIONS == 4
UP == 0
RIGHT == 1
DOWN == 2
LEFT == 3
\* uint16_t turn counter of GameManager::run
UINT16_MOD == 65536
UINT16_MAX == UINT16_MOD - 1
\* std::minstd_rand = linear_congruential_engine<uint_fast32_t, 48271, 0, 2147483647>
LCG_A == 48271
LCG_M == 2147483647

VARIABLES
    params,                     \* ServerParams (never changes after construction)
    \* ---- Server (server.h) ----
    players,                    \* map<PlayerId, Player>
    player_ids,                 \* map<client_id_t, PlayerId>
    client_message_queues,      \* keys of map<client_id_t, shared_ptr<queue>>
    last_messages_from_clients, \* map<client_id_t, client_mess_t>
    next_client_id,
    is_lobby,
    message_history,            \* queue<shared_ptr<server_mess_t>>
    \* ---- BlockingQueue objects, one per accepted client ----
    queue,                      \* client -> frames waiting for the writer
    is_open,                    \* client -> BlockingQueue::is_open
    seen_open,                  \* clients whose queue the broadcast in progress found open before their writer closed it
    \* ---- threads ----
    acceptor,                   \* [pc, client_id] of ClientAcceptor::run
    reader,                     \* client -> pc of MessageReceiver::run
    writer,                     \* client -> pc of MessageSender::run
    tcp_open,                   \* client -> the TcpConnection is not closed
    sent,                       \* client -> frames the writer has sent on TCP
    \* ---- GameManager (game-manager.h) ----
    gm,                         \* [pc, turn, players, events, client_messages, games]
    state,                      \* GameState
    random,                     \* state of std::minstd_rand
    \* ---- history variables ----
    log,                        \* every frame broadcast so far, in order
    connect_at,                 \* client -> [history, index] at createMessageQueue
    env,                        \* what the peers do in this run: [frames, clients, faults, sends, games, datagrams, stream, player_name]
    \* ---- the client (src/client) ----
    client_state,               \* ClientState
    client_mutex,               \* ClientState::mutex: "free", or the thread that holds it
    gui_handler,                \* [pc, input, received] of GuiHandler::run
    server_handler,             \* [pc, message, received] of ServerHandler::run
    server_output,              \* TcpConnection::output_buffer[0 .. output_size)
    client_sent,                \* the byte strings the client wrote to its TCP socket
    gui_output,                 \* UdpSocket::output_buffer: no datagram, or one
    gui_sent,                   \* the datagrams the client sent to the GUI
    client_log,                 \* history: the types of the frames the client applied
    \* ---- the server's threads at the grain of their mutexes ----
    server_mutex,               \* Server::mutex: NoThread, or the thread that holds it
    queue_mutex,                \* client -> BlockingQueue::mutex: NoThread, or its holder
    lock_pc,                    \* thread -> [op, step]: the call it is in and how far it got
    shared                      \* what the waits depend on: the tables, the queues' is_open and size

server_vars == <<players, player_ids, client_message_queues,
                 last_messages_from_clients, next_client_id, is_lobby,
                 message_history>>
queue_vars == <<queue, is_open, seen_open>>
thread_vars == <<acceptor, reader, writer, tcp_open, sent>>
gm_vars == <<gm, state, random>>
client_vars == <<client_state, client_mutex, gui_handler, server_handler,
                 server_output, client_sent, gui_output, gui_sent, client_log>>
lock_vars == <<server_mutex, queue_mutex, lock_pc, shared>>
vars == <<params, server_vars, queue_vars, thread_vars, gm_vars, log,
          connect_at, env, client_vars, lock_vars>>

(***************************************************************************)
(* std::map helpers.                                                       *)
(***************************************************************************)
EmptyMap == [k \in {} |-> 0]
MapPut(m, k, v) == [x \in DOMAIN m \cup {k} |-> IF x = k THEN v ELSE m[x]]
MapErase(m, k) == [x \in DOMAIN m \ {k} |-> m[x]]
\* std::map::operator[] on a map<client_id_t, PlayerId>: a missing key is
\* inserted with a value-initialised PlayerId, which is PlayerId{0}.
PlayerIdAt(ids, client_id) == IF client_id \in DOMAIN ids THEN ids[client_id] ELSE 0

(***************************************************************************)
(* Server messages (messages.h).                                           *)
(***************************************************************************)
Hello ==
    [type |-> "Hello",
     players_count |-> params.players_count,
     size_x |-> params.size_x, size_y |-> params.size_y,
     game_length |-> params.game_length,
     explosion_radius |-> params.explosion_radius,
     bomb_timer |-> params.bomb_timer]
AcceptedPlayer(id, player) == [type |-> "AcceptedPlayer", id |-> id, player |-> player]
GameStarted(ps) == [type |-> "GameStarted", players |-> ps]
Turn(turn, events) == [type |-> "Turn", turn |-> turn, events |-> events]
GameEnded(scores) == [type |-> "GameEnded", scores |-> scores]

\* Player{name, address}: the address is the remote endpoint of the client's
\* connection, which identifies the client.
Player(name, address) == [name |-> name, address |-> address]

(***************************************************************************)
(* Client messages (messages.h).                                           *)
(***************************************************************************)
Join == [type |-> "Join", name |-> "n"]
PlaceBomb == [type |-> "PlaceBomb"]
PlaceBlock == [type |-> "PlaceBlock"]
Move(d) == [type |-> "Move", direction |-> d]
Intents == {PlaceBomb, PlaceBlock} \cup {Move(d) : d \in 0 .. DIRECTIONS - 1}

(***************************************************************************)
(* Server private helpers.                                                 *)
(***************************************************************************)
\* Server::initializeMessageHistory
initializeMessageHistory == <<Hello>>

\* Server::broadcast, the part that pushes to the queues: every queue of the
\* table for which isOpen() returned true gets the frame.  isOpen() and
\* push() take the mutex of the queue one after the other, and a writer
\* closes its queue without Server::mutex, so a queue can be closed between
\* the two.
broadcastTargets == {c \in client_message_queues : is_open[c] \/ c \in seen_open}
\* A broadcast that reaches the admitted players only.
broadcastQueues_playersOnly(q, message) ==
    [c \in DOMAIN q |->
        IF c \in broadcastTargets /\ c \in DOMAIN player_ids
        THEN Append(q[c], message) ELSE q[c]]
broadcastQueues(q, message) ==
    [c \in DOMAIN q |->
        IF c \in broadcastTargets THEN Append(q[c], message) ELSE q[c]]

\* A history that leaves the Turn frames out.
broadcastHistory_noTurns(history, message) ==
    IF message.type = "Turn" THEN history ELSE Append(history, message)
\* Server::broadcast, the part that appends to the replay history.
broadcastHistory(history, message) == Append(history, message)

\* Server::broadcast as a whole, applied to the history `history` (the
\* callers startGame and endGame reseed the history before or after it).
broadcast(history, message) ==
    /\ message_history' = history
    /\ queue' = broadcastQueues(queue, message)
    /\ seen_open' = {}
    /\ log' = Append(log, message)

(***************************************************************************)
(* Server public operations (each holds Server::mutex for its whole body). *)
(***************************************************************************)
\* Server::acceptClient, called by ClientAcceptor::run after accept().
acceptClient ==
    /\ acceptor.pc = "accept"
    /\ next_client_id < env.clients
    /\ acceptor' = [pc |-> "create", client_id |-> next_client_id]
    /\ next_client_id' = next_client_id + 1
    /\ UNCHANGED <<lock_vars, client_vars, params, players, player_ids, client_message_queues,
                   last_messages_from_clients, is_lobby, message_history,
                   queue_vars, reader, writer, tcp_open, sent, gm_vars, log,
                   connect_at, env>>

\* The thread pool of main(): the threads that are running a task.  The
\* acceptor's task never returns; the task of a writer or of a reader
\* returns when its run() has left by the catch block.
busyThreads ==
    1 + Cardinality({c \in DOMAIN writer : writer[c] = "run"})
      + Cardinality({c \in DOMAIN reader : reader[c] \in {"run", "join", "erase"}})
\* The tasks posted to the pool that no thread has taken yet.
postedWriters == {c \in DOMAIN writer : writer[c] = "posted"}
postedReaders == {c \in DOMAIN reader : reader[c] = "posted"}
\* boost::asio::post of the n-th task of a connection (1: the writer, 2: the
\* reader): the task runs at once when no task is waiting and n threads of
\* the pool are idle, and waits in the pool's queue otherwise.
post(n) ==
    IF postedWriters = {} /\ postedReaders = {} /\ busyThreads + n <= MAX_THREADS
        THEN "run" ELSE "posted"

\* Server::createMessageQueue, followed by the two boost::asio::post calls
\* of ClientAcceptor::run that start the client's writer and reader.
createMessageQueue ==
    /\ acceptor.pc = "create"
    /\ LET client_id == acceptor.client_id IN
        /\ client_message_queues' = client_message_queues \cup {client_id}
        /\ queue' = MapPut(queue, client_id, message_history)
        /\ is_open' = MapPut(is_open, client_id, TRUE)
        /\ UNCHANGED seen_open
        /\ reader' = MapPut(reader, client_id, post(2))
        /\ writer' = MapPut(writer, client_id, post(1))
        /\ tcp_open' = MapPut(tcp_open, client_id, TRUE)
        /\ sent' = MapPut(sent, client_id, <<>>)
        /\ connect_at' = MapPut(connect_at, client_id,
                                [history |-> message_history, index |-> Len(log)])
    /\ acceptor' = [pc |-> "accept", client_id |-> acceptor.client_id]
    /\ UNCHANGED <<lock_vars, client_vars, params, players, player_ids, last_messages_from_clients,
                   next_client_id, is_lobby, message_history, gm_vars, log,
                   env>>

\* A thread of the pool that has become idle takes the task posted first:
\* the tasks were posted in the order of the connections, the writer of a
\* connection before its reader.
startPosted ==
    /\ busyThreads < MAX_THREADS
    /\ postedWriters \cup postedReaders # {}
    /\ LET posted == postedWriters \cup postedReaders
           c == CHOOSE x \in posted : \A y \in posted : x <= y IN
         IF c \in postedWriters
         THEN writer' = [writer EXCEPT ![c] = "run"] /\ UNCHANGED reader
         ELSE reader' = [reader EXCEPT ![c] = "run"] /\ UNCHANGED writer
    /\ UNCHANGED <<lock_vars, client_vars, params, server_vars, queue_vars, acceptor, tcp_open,
                   sent, gm_vars, log, connect_at, env>>

\* Server::eraseClient, the tables of players: players.erase(player_ids[id])
\* (operator[] yields PlayerId{0} when the client has no entry), then
\* player_ids.erase(id).
\* An eraseClient that leaves the table of players as it is.
erasePlayers_keep(ps, ids, client_id) == ps
erasePlayers(ps, ids, client_id) == MapErase(ps, PlayerIdAt(ids, client_id))
erasePlayerIds(ids, client_id) == MapErase(ids, client_id)

\* An eraseClient that leaves the queue of the client open.
eraseClient_open(client_id) ==
    /\ reader[client_id] = "erase"
    /\ players' = erasePlayers(players, player_ids, client_id)
    /\ player_ids' = erasePlayerIds(player_ids, client_id)
    /\ client_message_queues' = client_message_queues \ {client_id}
    /\ last_messages_from_clients' = MapErase(last_messages_from_clients, client_id)
    /\ reader' = [reader EXCEPT ![client_id] = "done"]
    /\ UNCHANGED <<lock_vars, client_vars, params, next_client_id, is_lobby, message_history, queue,
                   is_open, seen_open, acceptor, writer, tcp_open, sent, gm_vars, log,
                   connect_at, env>>
\* An eraseClient that also takes the client's player out of the game in
\* progress: the robot and the score entry of the player are erased.
eraseClient_leaveGame(client_id) ==
    /\ reader[client_id] = "erase"
    /\ players' = erasePlayers(players, player_ids, client_id)
    /\ player_ids' = erasePlayerIds(player_ids, client_id)
    /\ is_open' = IF client_id \in client_message_queues
                  THEN [is_open EXCEPT ![client_id] = FALSE] ELSE is_open
    /\ seen_open' = seen_open \ {client_id}
    /\ client_message_queues' = client_message_queues \ {client_id}
    /\ last_messages_from_clients' = MapErase(last_messages_from_clients, client_id)
    /\ reader' = [reader EXCEPT ![client_id] = "done"]
    /\ state' = IF client_id \in DOMAIN player_ids
                THEN [state EXCEPT !.player_pos = MapErase(@, player_ids[client_id]),
                                   !.scores = MapErase(@, player_ids[client_id])]
                ELSE state
    /\ UNCHANGED <<lock_vars, client_vars, params, next_client_id, is_lobby, message_history, queue,
                   acceptor, writer, tcp_open, sent, gm, random, log, connect_at,
                   env>>
\* Server::eraseClient, reached from the catch block of MessageReceiver::run.
eraseClient(client_id) ==
    /\ reader[client_id] = "erase"
    /\ players' = erasePlayers(players, player_ids, client_id)
    /\ player_ids' = erasePlayerIds(player_ids, client_id)
    /\ is_open' = IF client_id \in client_message_queues
                  THEN [is_open EXCEPT ![client_id] = FALSE] ELSE is_open
    /\ seen_open' = seen_open \ {client_id}
    /\ client_message_queues' = client_message_queues \ {client_id}
    /\ last_messages_from_clients' = MapErase(last_messages_from_clients, client_id)
    /\ reader' = [reader EXCEPT ![client_id] = "done"]
    /\ UNCHANGED <<lock_vars, client_vars, params, next_client_id, is_lobby, message_history, queue,
                   acceptor, writer, tcp_open, sent, gm_vars, log, connect_at,
                   env>>

\* Server::setLastMessage, called by MessageReceiver::handle for PlaceBomb,
\* PlaceBlock and Move.
setLastMessage(id, message) ==
    /\ reader[id] = "run"
    /\ message \in env.frames \cap Intents
    /\ last_messages_from_clients' = MapPut(last_messages_from_clients, id, message)
    /\ UNCHANGED <<lock_vars, client_vars, params, players, player_ids, client_message_queues,
                   next_client_id, is_lobby, message_history, queue_vars,
                   thread_vars, gm_vars, log, connect_at, env>>

\* A tryAcceptPlayer that does not look at the phase.
canAcceptPlayer_anyPhase(client_id) ==
    /\ client_id \notin DOMAIN player_ids
    /\ Cardinality(DOMAIN player_ids) < params.players_count
\* Server::tryAcceptPlayer: the condition under which the Join is accepted.
canAcceptPlayer(client_id) ==
    /\ is_lobby
    /\ client_id \notin DOMAIN player_ids
    /\ Cardinality(DOMAIN player_ids) < params.players_count
\* Server::tryAcceptPlayer: the PlayerId given to the new player.
newPlayerId == Cardinality(DOMAIN player_ids) % 256

\* Server::tryAcceptPlayer, called by MessageReceiver::handle(Join) with the
\* Join that handleClientMessage has read.
tryAcceptPlayer(client_id, name, address) ==
    /\ reader[client_id] = "join"
    /\ reader' = [reader EXCEPT ![client_id] = "run"]
    /\ IF canAcceptPlayer(client_id)
       THEN LET player_id == newPlayerId
                player == Player(name, address)
            IN /\ player_ids' = MapPut(player_ids, client_id, player_id)
               /\ players' = MapPut(players, player_id, player)
               /\ broadcast(broadcastHistory(message_history, AcceptedPlayer(player_id, player)),
                            AcceptedPlayer(player_id, player))
       ELSE UNCHANGED <<player_ids, players, message_history, queue, seen_open, log>>
    /\ UNCHANGED <<lock_vars, client_vars, params, client_message_queues, last_messages_from_clients,
                   next_client_id, is_lobby, is_open, acceptor, writer,
                   tcp_open, sent, gm_vars, connect_at, env>>

(***************************************************************************)
(* MessageReceiver and MessageSender (client-handler.h).                   *)
(***************************************************************************)
\* The environment: a connection can still break, a peer still takes a frame.
RECURSIVE TotalLenUpTo(_, _, _)
TotalLenUpTo(f, S, n) ==
    IF n < 0 THEN 0
    ELSE (IF n \in S THEN Len(f[n]) ELSE 0) + TotalLenUpTo(f, S, n - 1)
TotalLen(f, S) ==
    TotalLenUpTo(f, S, IF S = {} THEN 0 ELSE CHOOSE x \in S : \A y \in S : y <= x)
peerMayFail == Cardinality({c \in DOMAIN tcp_open : ~tcp_open[c]}) < env.faults
peerMayReceive == TotalLen(sent, DOMAIN sent) < env.sends

\* MessageReceiver::handleClientMessage, case CLIENT_JOIN up to the call of
\* handle: the reader has read a Join frame from its connection.
receiveJoin(client_id) ==
    /\ reader[client_id] = "run"
    /\ Join \in env.frames
    /\ reader' = [reader EXCEPT ![client_id] = "join"]
    /\ UNCHANGED <<lock_vars, client_vars, params, server_vars, queue_vars, acceptor, writer, tcp_open,
                   sent, gm_vars, log, connect_at, env>>

\* MessageReceiver::run, the catch block up to connection->close(): a read
\* failed (peer closed, socket shut down) or the frame did not parse.
receiverFail(client_id) ==
    /\ reader[client_id] = "run"
    /\ ~tcp_open[client_id] \/ peerMayFail
    /\ reader' = [reader EXCEPT ![client_id] = "erase"]
    /\ tcp_open' = [tcp_open EXCEPT ![client_id] = FALSE]
    /\ UNCHANGED <<lock_vars, client_vars, params, server_vars, queue_vars, acceptor, writer, sent,
                   gm_vars, log, connect_at, env>>

\* MessageSender::run, one round of the loop: pop, writeServerMessage, send.
senderSend(client_id) ==
    /\ writer[client_id] = "run"
    /\ is_open[client_id]
    /\ tcp_open[client_id]
    /\ peerMayReceive
    /\ queue[client_id] # <<>>
    /\ queue' = [queue EXCEPT ![client_id] = Tail(@)]
    /\ sent' = [sent EXCEPT ![client_id] = Append(@, Head(queue[client_id]))]
    /\ UNCHANGED <<lock_vars, client_vars, params, server_vars, is_open, seen_open, acceptor, reader,
                   writer, tcp_open, gm_vars, log, connect_at, env>>

\* A writer whose pop() takes the front frame of a closed queue before it
\* fails.
senderFail_popsClosed(client_id) ==
    /\ writer[client_id] = "run"
    /\ \/ /\ ~is_open[client_id]
          /\ queue' = [queue EXCEPT ![client_id] = IF @ = <<>> THEN @ ELSE Tail(@)]
          /\ UNCHANGED seen_open
       \/ /\ is_open[client_id]
          /\ queue[client_id] # <<>>
          /\ ~tcp_open[client_id] \/ peerMayFail
          /\ queue' = [queue EXCEPT ![client_id] = Tail(@)]
          /\ seen_open' \in {seen_open, seen_open \cup {client_id}}
    /\ tcp_open' = [tcp_open EXCEPT ![client_id] = FALSE]
    /\ is_open' = [is_open EXCEPT ![client_id] = FALSE]
    /\ writer' = [writer EXCEPT ![client_id] = "done"]
    /\ UNCHANGED <<lock_vars, client_vars, params, server_vars, acceptor, reader, sent, gm_vars, log,
                   connect_at, env>>
\* MessageSender::run, the catch block: pop() threw because the queue is
\* closed, or send() failed after a pop.  The close() of the second case
\* can fall between the isOpen() and the push() of a broadcast in progress.
senderFail(client_id) ==
    /\ writer[client_id] = "run"
    /\ \/ /\ ~is_open[client_id]
          /\ UNCHANGED <<queue, seen_open>>
       \/ /\ is_open[client_id]
          /\ queue[client_id] # <<>>
          /\ ~tcp_open[client_id] \/ peerMayFail
          /\ queue' = [queue EXCEPT ![client_id] = Tail(@)]
          /\ seen_open' \in {seen_open, seen_open \cup {client_id}}
    /\ tcp_open' = [tcp_open EXCEPT ![client_id] = FALSE]
    /\ is_open' = [is_open EXCEPT ![client_id] = FALSE]
    /\ writer' = [writer EXCEPT ![client_id] = "done"]
    /\ UNCHANGED <<lock_vars, client_vars, params, server_vars, acceptor, reader, sent, gm_vars, log,
                   connect_at, env>>

(***************************************************************************)
(* GameManager: the pure computations of game-manager.h.  A computation    *)
(* context c is [state, events, random]: the GameState, the event list     *)
(* being built, and the state of the random number generator.              *)
(***************************************************************************)
Range(seq) == {seq[k] : k \in 1 .. Len(seq)}
Min(S) == CHOOSE x \in S : \A y \in S : x <= y
Max(S) == CHOOSE x \in S : \A y \in S : y <= x

\* Iteration order of std::map / std::set keyed by PlayerId, BombId, client_id_t.
RECURSIVE Ascending(_)
Ascending(S) == IF S = {} THEN <<>> ELSE <<Min(S)>> \o Ascending(S \ {Min(S)})

\* Position::operator<=> : lexicographic on (x, y).
PositionLess(p, q) == p.x < q.x \/ (p.x = q.x /\ p.y < q.y)
RECURSIVE AscendingPositions(_)
AscendingPositions(S) ==
    IF S = {} THEN <<>>
    ELSE LET m == CHOOSE p \in S : \A q \in S \ {p} : PositionLess(p, q)
         IN <<m>> \o AscendingPositions(S \ {m})

Position(x, y) == [x |-> x, y |-> y]
Bomb(position, timer) == [position |-> position, timer |-> timer]

\* events.h
BombPlaced(id, position) == [type |-> "BombPlaced", id |-> id, position |-> position]
BombExploded(id, robots_destroyed, blocks_destroyed) ==
    [type |-> "BombExploded", id |-> id,
     robots_destroyed |-> robots_destroyed, blocks_destroyed |-> blocks_destroyed]
PlayerMoved(id, position) == [type |-> "PlayerMoved", id |-> id, position |-> position]
BlockPlaced(position) == [type |-> "BlockPlaced", position |-> position]

\* GameManager::GameState, default constructed.
GameState ==
    [bombs |-> EmptyMap, blocks |-> {}, player_pos |-> EmptyMap,
     scores |-> EmptyMap, next_bomb_id |-> 0]

\* std::minstd_rand: x' = 48271 * x mod (2^31 - 1), computed by Schrage's
\* method so that no intermediate value exceeds 32 bits.
LCG_Q == LCG_M \div LCG_A
LCG_R == LCG_M % LCG_A
randomNext(x) ==
    LET v == LCG_A * (x % LCG_Q) - LCG_R * (x \div LCG_Q)
    IN IF v < 0 THEN v + LCG_M ELSE v
\* A generator that ignores the seed it is given.
randomSeed_fixed(seed) == 1
\* std::minstd_rand(seed)
randomSeed(seed) == IF seed % LCG_M = 0 THEN 1 ELSE seed % LCG_M

\* A position whose y is drawn before its x.
randomPosition_yFirst(rnd) ==
    Position(randomNext(randomNext(rnd)) % params.size_x,
             randomNext(rnd) % params.size_y)
\* A draw that can fall one cell outside the board.
randomPosition_wide(rnd) ==
    Position(randomNext(rnd) % (params.size_x + 1),
             randomNext(randomNext(rnd)) % (params.size_y + 1))
\* Position{random() % size_x, random() % size_y}, x drawn before y.
randomPosition(rnd) ==
    Position(randomNext(rnd) % params.size_x,
             randomNext(randomNext(rnd)) % params.size_y)

\* GameManager::resetScores: the clear() is inside the loop, so only the
\* last player of the map keeps an entry.
resetScores(ps, c) ==
    [c EXCEPT !.state.scores =
        IF DOMAIN ps = {} THEN c.state.scores
        ELSE [p \in {Max(DOMAIN ps)} |-> 0]]

\* GameManager::placeMissingRobots, the loop over the players from the
\* i-th of `ids` on.
RECURSIVE placeMissingRobotsFrom(_, _, _)
placeMissingRobotsFrom(ids, i, c) ==
    IF i > Len(ids) THEN c
    ELSE LET player_id == ids[i] IN
         IF player_id \in DOMAIN c.state.player_pos
         THEN placeMissingRobotsFrom(ids, i + 1, c)
         ELSE LET pos == randomPosition(c.random) IN
              placeMissingRobotsFrom(ids, i + 1,
                [state |-> [c.state EXCEPT !.player_pos = MapPut(@, player_id, pos)],
                 events |-> Append(c.events, PlayerMoved(player_id, pos)),
                 random |-> randomNext(randomNext(c.random))])
\* A respawn of the players whose client is still connected.
placeMissingRobots_connected(ps, c) ==
    placeMissingRobotsFrom(
        Ascending({p \in DOMAIN ps : ps[p].address \in client_message_queues}), 1, c)
placeMissingRobots(ps, c) == placeMissingRobotsFrom(Ascending(DOMAIN ps), 1, c)

\* GameManager::placeInitialBlocks, the loop from counter value i on.
RECURSIVE placeInitialBlocksFrom(_, _)
placeInitialBlocksFrom(i, c) ==
    IF ~(i < params.initial_blocks) THEN c
    ELSE LET new_block_pos == randomPosition(c.random) IN
         placeInitialBlocksFrom((i + 1) % UINT16_MOD,
            [state |-> [c.state EXCEPT !.blocks = @ \cup {new_block_pos}],
             events |-> Append(c.events, BlockPlaced(new_block_pos)),
             random |-> randomNext(randomNext(c.random))])
placeInitialBlocks(c) == placeInitialBlocksFrom(0, c)

\* GameManager::initializeGame
initializeGame(ps, st, rnd) ==
    placeInitialBlocks(
        placeMissingRobots(ps,
            resetScores(ps, [state |-> st, events |-> <<>>, random |-> rnd])))

(***************************************************************************)
(* Explosions.                                                             *)
(***************************************************************************)
\* dx, dy of GameManager::calcExplosion
explosionDx == <<1, -1, 0, 0>>
explosionDy == <<0, 0, 1, -1>>

\* GameManager::calcExplosion, the inner loop of direction i (1-based) from
\* counter value r on: the cells this arm adds to affected_pos.  Once a cell
\* of the arm is off the board every later cell of the pass is too, and the
\* rest of the pass adds nothing.
RECURSIVE calcExplosionArm(_, _, _, _)
calcExplosionArm(bomb_pos, st, i, r) ==
    IF ~(r <= params.explosion_radius) THEN {}
    ELSE LET x == bomb_pos.x + explosionDx[i] * r
             y == bomb_pos.y + explosionDy[i] * r
         IN IF 0 <= x /\ x < params.size_x /\ 0 <= y /\ y < params.size_y
            THEN {Position(x, y)} \cup
                 (IF Position(x, y) \in st.blocks \/ r = UINT16_MAX THEN {}
                  ELSE calcExplosionArm(bomb_pos, st, i, r + 1))
            ELSE {}

\* GameManager::calcExplosion, the inner loop of direction i from counter
\* value r on: whether the loop is left.  It is left by the break at a block
\* or when the uint16_t counter r exceeds explosion_radius; ++r wraps from
\* UINT16_MAX to 0, where the pass starts again from the same state.
RECURSIVE calcExplosionArmReturns(_, _, _, _)
calcExplosionArmReturns(bomb_pos, st, i, r) ==
    IF ~(r <= params.explosion_radius) THEN TRUE
    ELSE LET x == bomb_pos.x + explosionDx[i] * r
             y == bomb_pos.y + explosionDy[i] * r
         IN IF 0 <= x /\ x < params.size_x /\ 0 <= y /\ y < params.size_y
            THEN IF Position(x, y) \in st.blocks THEN TRUE
                 ELSE IF r = UINT16_MAX THEN FALSE
                 ELSE calcExplosionArmReturns(bomb_pos, st, i, r + 1)
            ELSE params.explosion_radius < UINT16_MAX

\* GameManager::calcExplosion
calcExplosion(bomb_pos, st) ==
    UNION {calcExplosionArm(bomb_pos, st, i, 0) : i \in 1 .. DIRECTIONS}

\* GameManager::calcExplosion returns: each of its four inner loops is left.
calcExplosionReturns(bomb_pos, st) ==
    \A i \in 1 .. DIRECTIONS : calcExplosionArmReturns(bomb_pos, st, i, 0)

\* GameManager::calcDestroyedRobots
calcDestroyedRobots(positions, st) ==
    {player_id \in DOMAIN st.player_pos : st.player_pos[player_id] \in positions}

\* GameManager::calcDestroyedBlocks
calcDestroyedBlocks(positions, st) == {pos \in positions : pos \in st.blocks}

\* GameManager::calcExplosionResult
calcExplosionResult(id, st) ==
    LET affected_positions == calcExplosion(st.bombs[id].position, st)
    IN [robots_destroyed |-> calcDestroyedRobots(affected_positions, st),
        blocks_destroyed |-> calcDestroyedBlocks(affected_positions, st)]

\* An updateBombs in which every bomb explodes in the turn after its placing.
bombsExploding_all(st) == DOMAIN st.bombs
\* An updateBombs in which a bomb explodes one turn late.
bombsExploding_late(st) == {id \in DOMAIN st.bombs : ~(st.bombs[id].timer > 0)}
\* GameManager::updateBombs: the bombs that explode now.
bombsExploding(st) == {id \in DOMAIN st.bombs : ~(st.bombs[id].timer > 1)}

\* GameManager::updateBombs returns: the explosion of every bomb that
\* explodes now is computed to its end.
updateBombsReturns(st) ==
    \A id \in bombsExploding(st) : calcExplosionReturns(st.bombs[id].position, st)

\* GameManager::updateBombs: robots_destroyed_total, blocks_destroyed_total.
robotsDestroyedTotal(st) ==
    UNION {calcExplosionResult(id, st).robots_destroyed : id \in bombsExploding(st)}
blocksDestroyedTotal(st) ==
    UNION {calcExplosionResult(id, st).blocks_destroyed : id \in bombsExploding(st)}

\* BombExploded events of an updateBombs that applies the destruction of
\* each bomb before it computes the explosion of the next.
RECURSIVE explosionEventsAppliedFrom(_, _, _)
explosionEventsAppliedFrom(ids, k, st) ==
    IF k > Len(ids) THEN <<>>
    ELSE LET result == calcExplosionResult(ids[k], st)
         IN <<BombExploded(ids[k], Ascending(result.robots_destroyed),
                           AscendingPositions(result.blocks_destroyed))>>
            \o explosionEventsAppliedFrom(ids, k + 1,
                  [st EXCEPT !.blocks = st.blocks \ result.blocks_destroyed,
                             !.player_pos = [id \in DOMAIN st.player_pos \ result.robots_destroyed |->
                                                st.player_pos[id]]])
explosionEvents_applied(st) ==
    explosionEventsAppliedFrom(Ascending(bombsExploding(st)), 1, st)
\* GameManager::updateBombs: the BombExploded events, in the map's order.
explosionEvents(st) ==
    LET ids == Ascending(bombsExploding(st))
    IN [k \in 1 .. Len(ids) |->
          BombExploded(ids[k],
              Ascending(calcExplosionResult(ids[k], st).robots_destroyed),
              AscendingPositions(calcExplosionResult(ids[k], st).blocks_destroyed))]

\* GameManager::updateBombs: the scores after the loop over
\* robots_destroyed_total (scores[id] is created with 0 when missing).
scoreAt(scores, id) == IF id \in DOMAIN scores THEN scores[id] ELSE 0
\* An update that raises only the scores that already have an entry.
updateScores_existing(scores, destroyed) ==
    [id \in DOMAIN scores |->
        IF id \in destroyed THEN scores[id] + 1 ELSE scores[id]]
updateScores(scores, destroyed) ==
    [id \in DOMAIN scores \cup destroyed |->
        IF id \in destroyed THEN scoreAt(scores, id) + 1
        ELSE scores[id]]

\* GameManager::updateBombs
updateBombs(c) ==
    LET st == c.state
        exploded == bombsExploding(st)
        robots == robotsDestroyedTotal(st)
        blocks == blocksDestroyedTotal(st)
    IN [state |->
          [bombs |-> [id \in DOMAIN st.bombs \ exploded |->
                        Bomb(st.bombs[id].position, st.bombs[id].timer - 1)],
           blocks |-> st.blocks \ blocks,
           player_pos |-> [id \in DOMAIN st.player_pos \ robots |-> st.player_pos[id]],
           scores |-> updateScores(st.scores, robots),
           next_bomb_id |-> st.next_bomb_id],
        events |-> c.events \o explosionEvents(st),
        random |-> c.random]

(***************************************************************************)
(* Interpretation of the clients' intents.                                 *)
(***************************************************************************)
\* A getDelta with Up and Down exchanged.
getDelta_flipped(d) ==
    CASE d = UP -> <<0, -1>>
      [] d = DOWN -> <<0, 1>>
      [] d = LEFT -> <<-1, 0>>
      [] d = RIGHT -> <<1, 0>>
      [] OTHER -> <<0, 0>>
\* getDelta (types.h)
getDelta(d) ==
    CASE d = UP -> <<0, 1>>
      [] d = DOWN -> <<0, -1>>
      [] d = LEFT -> <<-1, 0>>
      [] d = RIGHT -> <<1, 0>>
      [] OTHER -> <<0, 0>>

\* A placeBomb that gives every bomb the same BombId.
\* A placeBomb that refuses a cell that holds a block or a bomb.
placeBomb_ifFree(pos, c) ==
    IF pos \in c.state.blocks \/ \E id \in DOMAIN c.state.bombs : c.state.bombs[id].position = pos
    THEN c
    ELSE [c EXCEPT !.state.bombs = MapPut(@, c.state.next_bomb_id, Bomb(pos, params.bomb_timer)),
                   !.events = Append(@, BombPlaced(c.state.next_bomb_id, pos)),
                   !.state.next_bomb_id = @ + 1]
\* A placeBomb that hands out the same BombId again.
placeBomb_sameId(pos, c) ==
    [c EXCEPT !.state.bombs = MapPut(@, c.state.next_bomb_id, Bomb(pos, params.bomb_timer)),
              !.events = Append(@, BombPlaced(c.state.next_bomb_id, pos))]
\* GameManager::placeBomb
placeBomb(pos, c) ==
    [c EXCEPT !.state.bombs = MapPut(@, c.state.next_bomb_id, Bomb(pos, params.bomb_timer)),
              !.events = Append(@, BombPlaced(c.state.next_bomb_id, pos)),
              !.state.next_bomb_id = @ + 1]

\* GameManager::placeBlock
placeBlock(pos, c) ==
    IF pos \notin c.state.blocks
    THEN [c EXCEPT !.state.blocks = @ \cup {pos},
                   !.events = Append(@, BlockPlaced(pos))]
    ELSE c

\* GameManager::movePlayer
movePlayer(p_id, pos, c) ==
    IF pos.x >= params.size_x \/ pos.y >= params.size_y THEN c
    ELSE IF pos \in c.state.blocks THEN c
    ELSE [c EXCEPT !.state.player_pos = MapPut(@, p_id, pos),
                   !.events = Append(@, PlayerMoved(p_id, pos))]

\* GameManager::interpret, the three overloads.
interpret(p_id, m, c) ==
    LET pos == c.state.player_pos[p_id] IN
    CASE m.type = "PlaceBomb" -> placeBomb(pos, c)
      [] m.type = "PlaceBlock" ->
            IF pos \in c.state.blocks THEN c ELSE placeBlock(pos, c)
      [] m.type = "Move" ->
            LET new_x == pos.x + getDelta(m.direction)[1]
                new_y == pos.y + getDelta(m.direction)[2]
            IN IF 0 <= new_x /\ new_x < params.size_x
                  /\ 0 <= new_y /\ new_y < params.size_y
               THEN movePlayer(p_id, Position(new_x, new_y), c)
               ELSE c
      [] OTHER -> c

\* GameManager::interpretAllClientMessages, the loop from the i-th key on.
RECURSIVE interpretFrom(_, _, _, _)
interpretFrom(ids, i, messages, c) ==
    IF i > Len(ids) THEN c
    ELSE interpretFrom(ids, i + 1, messages,
            IF ids[i] \in DOMAIN c.state.player_pos
            THEN interpret(ids[i], messages[ids[i]], c)
            ELSE c)
interpretAllClientMessages(messages, c) ==
    interpretFrom(Ascending(DOMAIN messages), 1, messages, c)

\* A turn in which the intents are interpreted before the bombs explode.
computeTurn_intentsFirst(ps, messages, st, rnd) ==
    placeMissingRobots(ps,
        updateBombs(
            interpretAllClientMessages(messages,
                [state |-> st, events |-> <<>>, random |-> rnd])))
\* A turn in which the robots are respawned before the intents are
\* interpreted.
computeTurn_respawnFirst(ps, messages, st, rnd) ==
    interpretAllClientMessages(messages,
        placeMissingRobots(ps,
            updateBombs([state |-> st, events |-> <<>>, random |-> rnd])))
\* GameManager::run, lines 52-54: the thread-local work of one turn.
computeTurn(ps, messages, st, rnd) ==
    placeMissingRobots(ps,
        interpretAllClientMessages(messages,
            updateBombs([state |-> st, events |-> <<>>, random |-> rnd])))

(***************************************************************************)
(* GameManager::run and the Server operations it calls.                    *)
(***************************************************************************)
\* Server::waitForPlayersToStartGame: the predicate of the wait.
enoughPlayers == Cardinality(DOMAIN players) = params.players_count

\* A startGame that does not reseed the history.
startGameHistory_keep(ps) == broadcastHistory(message_history, GameStarted(ps))
\* Server::startGame: the history after the reseeding and the broadcast.
startGameHistory(ps) == broadcastHistory(initializeMessageHistory, GameStarted(ps))

\* Server::waitForPlayersToStartGame with Server::startGame; `GameState state`
\* of GameManager::run is constructed on the way.
waitForPlayersToStartGame ==
    /\ gm.pc = "wait"
    /\ gm.games < env.games
    /\ enoughPlayers
    /\ is_lobby' = FALSE
    /\ last_messages_from_clients' = EmptyMap
    /\ broadcast(startGameHistory(players), GameStarted(players))
    /\ gm' = [gm EXCEPT !.pc = "init", !.players = players, !.turn = 0,
                        !.events = <<>>, !.client_messages = EmptyMap]
    /\ state' = GameState
    /\ UNCHANGED <<lock_vars, client_vars, params, players, player_ids, client_message_queues,
                   next_client_id, is_open, thread_vars, random, connect_at,
                   env>>

\* GameManager::initializeGame, called from run().
initializeGameStep ==
    /\ gm.pc = "init"
    /\ LET c == initializeGame(gm.players, state, random) IN
        /\ state' = c.state
        /\ random' = c.random
        /\ gm' = [gm EXCEPT !.pc = "close", !.turn = 0, !.events = c.events]
    /\ UNCHANGED <<lock_vars, client_vars, params, server_vars, queue_vars, thread_vars, log,
                   connect_at, env>>

\* GameManager::run, the for statement: the value of `turn` after the
\* closeTurn of turn t (turn = 1 after closeTurn(0), ++turn afterwards).
nextTurn(t) == (t + 1) % UINT16_MOD
\* A loop that stops one turn early.
turnInGame_short(t) == t < params.game_length
\* GameManager::run, the loop condition.
turnInGame(t) == t <= params.game_length

\* Server::closeTurn, and the loop control of GameManager::run after it.
closeTurn ==
    /\ gm.pc = "close"
    /\ broadcast(broadcastHistory(message_history, Turn(gm.turn, gm.events)),
                 Turn(gm.turn, gm.events))
    /\ gm' = [gm EXCEPT !.pc = IF turnInGame(nextTurn(gm.turn)) THEN "sleep" ELSE "end",
                        !.turn = nextTurn(gm.turn),
                        !.events = <<>>]
    /\ UNCHANGED <<lock_vars, client_vars, params, players, player_ids, client_message_queues,
                   last_messages_from_clients, next_client_id, is_lobby,
                   is_open, thread_vars, state, random, connect_at, env>>

\* Server::collectLastMessagesFromClients: the returned map.  The clients are
\* visited in ascending client id and messages[player_ids[client_id]] is
\* overwritten, so the client with the greatest id wins a PlayerId.
collectMessages(ids, last) ==
    [p \in {PlayerIdAt(ids, c) : c \in DOMAIN last} |->
        last[Max({c \in DOMAIN last : PlayerIdAt(ids, c) = p})]]
\* Server::collectLastMessagesFromClients: player_ids after the loop
\* (player_ids[client_id] inserts the missing keys).
collectPlayerIds(ids, last) ==
    [c \in DOMAIN ids \cup DOMAIN last |-> PlayerIdAt(ids, c)]

\* Server::collectLastMessagesFromClients, after the sleep of the turn.
collectLastMessagesFromClients ==
    /\ gm.pc = "sleep"
    /\ gm' = [gm EXCEPT !.pc = "compute",
                        !.client_messages =
                            collectMessages(player_ids, last_messages_from_clients)]
    /\ player_ids' = collectPlayerIds(player_ids, last_messages_from_clients)
    /\ last_messages_from_clients' = EmptyMap
    /\ UNCHANGED <<lock_vars, client_vars, params, players, client_message_queues, next_client_id,
                   is_lobby, message_history, queue_vars, thread_vars, state,
                   random, log, connect_at, env>>

\* GameManager::run, updateBombs / interpretAllClientMessages /
\* placeMissingRobots of one turn.  The thread stays in updateBombs when an
\* explosion is not computed to its end.
computeTurnStep ==
    /\ gm.pc = "compute"
    /\ updateBombsReturns(state)
    /\ LET c == computeTurn(gm.players, gm.client_messages, state, random) IN
        /\ state' = c.state
        /\ random' = c.random
        /\ gm' = [gm EXCEPT !.pc = "close", !.events = c.events,
                            !.client_messages = EmptyMap]
    /\ UNCHANGED <<lock_vars, client_vars, params, server_vars, queue_vars, thread_vars, log,
                   connect_at, env>>

\* An endGame without startLobby's reseeding of the history.
endGameHistory_keep == broadcastHistory(message_history, GameEnded(state.scores))
\* Server::endGame: the history after the broadcast and startLobby, which
\* calls initializeMessageHistory.
endGameHistory == initializeMessageHistory

\* Server::endGame with Server::startLobby.
endGame ==
    /\ gm.pc = "end"
    /\ broadcast(endGameHistory, GameEnded(state.scores))
    /\ is_lobby' = TRUE
    /\ players' = EmptyMap
    /\ player_ids' = EmptyMap
    /\ last_messages_from_clients' = EmptyMap
    /\ gm' = [gm EXCEPT !.pc = "wait", !.games = @ + 1]
    /\ UNCHANGED <<lock_vars, client_vars, params, client_message_queues, next_client_id, is_open,
                   thread_vars, state, random, connect_at, env>>

(***************************************************************************)
(* The client (src/client): one ClientState shared by two threads, the     *)
(* ServerHandler (server -> client -> GUI) and the GuiHandler (GUI ->      *)
(* client -> server).  Each handler takes ClientState::mutex for one       *)
(* message; the steps of a handler under the lock are separate actions, so *)
(* that the exclusion is the mutex's doing and not the model's.            *)
(***************************************************************************)
\* GuiHandler::InputMessage, GuiHandler::ClientMessage, GuiHandler::DIRECTION_MAX
GUI_PLACE_BOMB == 0
GUI_PLACE_BLOCK == 1
GUI_MOVE == 2
CLIENT_JOIN == 0
CLIENT_PLACE_BOMB == 1
CLIENT_PLACE_BLOCK == 2
CLIENT_MOVE == 3
DIRECTION_MAX == 3
\* sizeof of the packed structs GuiHandler::PlaceBomb, PlaceBlock, Move
SizeofPlaceBomb == 1
SizeofPlaceBlock == 1
SizeofMove == 2

\* ClientState as run() constructs it.  server_name is left out: the Hello
\* of this model does not carry it, and no handler reads it.
ClientState(player_name) ==
    [is_lobby |-> TRUE, player_name |-> player_name,
     players_count |-> 0, size_x |-> 0, size_y |-> 0, game_length |-> 0,
     explosion_radius |-> 0, bomb_timer |-> 0, turn |-> 0,
     players |-> EmptyMap, player_positions |-> EmptyMap, blocks |-> {},
     bombs |-> EmptyMap, explosions |-> {}, scores |-> EmptyMap,
     robots_destroyed_in_turn |-> {}, blocks_destroyed_in_turn |-> {}]

\* ---- TcpConnection, the output side ----
\* TcpConnection::write(uint8_t); a frame of the client is far shorter than
\* BUFFER_SIZE, so the flush of a full buffer never happens.
tcpWriteU8(output, val) == Append(output, val % 256)
\* TcpConnection::write(string&): the length in one byte, then the bytes.
tcpWriteString(output, s) == tcpWriteU8(output, Len(s)) \o s

\* ---- GuiHandler ----
\* GuiHandler::handleJoin
handleJoin(output, c) == tcpWriteString(tcpWriteU8(output, CLIENT_JOIN), c.player_name)

\* GuiHandler::handlePlaceBomb
handlePlaceBomb(output, c) ==
    IF c.is_lobby THEN handleJoin(output, c) ELSE tcpWriteU8(output, CLIENT_PLACE_BOMB)

\* GuiHandler::handlePlaceBlock
handlePlaceBlock(output, c) ==
    IF c.is_lobby THEN handleJoin(output, c) ELSE tcpWriteU8(output, CLIENT_PLACE_BLOCK)

\* A handleMove that takes every direction byte.
handleMove_anyDirection(output, direction, c) ==
    IF c.is_lobby THEN handleJoin(output, c)
    ELSE tcpWriteU8(tcpWriteU8(output, CLIENT_MOVE), direction)
\* GuiHandler::handleMove
handleMove(output, direction, c) ==
    IF direction > DIRECTION_MAX THEN output
    ELSE IF c.is_lobby THEN handleJoin(output, c)
    ELSE tcpWriteU8(tcpWriteU8(output, CLIENT_MOVE), direction)

\* GuiHandler::handleMessage, the test of each branch on the datagram (len
\* bytes received into input_buffer; the type is byte 0, read only when the
\* length matched).
isGuiPlaceBomb(input) == Len(input) = SizeofPlaceBomb /\ input[1] = GUI_PLACE_BOMB
isGuiPlaceBlock(input) == Len(input) = SizeofPlaceBlock /\ input[1] = GUI_PLACE_BLOCK
isGuiMove(input) == Len(input) = SizeofMove /\ input[1] = GUI_MOVE

\* ---- events.h ----
\* BombExploded::calcExplosion, the inner loop of direction i from counter
\* value r on: the cells it adds to explosions.  A cell off the board is
\* skipped and the loop goes on; every later cell of the pass is off the
\* board as well, so the rest of the pass adds nothing.
RECURSIVE clientExplosionArm(_, _, _, _)
clientExplosionArm(bomb_pos, c, i, r) ==
    IF ~(r <= c.explosion_radius) THEN {}
    ELSE LET x == bomb_pos.x + explosionDx[i] * r
             y == bomb_pos.y + explosionDy[i] * r
         IN IF 0 <= x /\ x < c.size_x /\ 0 <= y /\ y < c.size_y
            THEN {Position(x, y)} \cup
                 (IF Position(x, y) \in c.blocks \/ r = UINT16_MAX THEN {}
                  ELSE clientExplosionArm(bomb_pos, c, i, r + 1))
            ELSE {}

\* BombExploded::calcExplosion, the inner loop of direction i from counter
\* value r on: whether the loop is left (by the break at a block, or when
\* the uint16_t counter r exceeds explosion_radius).
RECURSIVE clientExplosionArmReturns(_, _, _, _)
clientExplosionArmReturns(bomb_pos, c, i, r) ==
    IF ~(r <= c.explosion_radius) THEN TRUE
    ELSE LET x == bomb_pos.x + explosionDx[i] * r
             y == bomb_pos.y + explosionDy[i] * r
         IN IF 0 <= x /\ x < c.size_x /\ 0 <= y /\ y < c.size_y
            THEN IF Position(x, y) \in c.blocks THEN TRUE
                 ELSE IF r = UINT16_MAX THEN FALSE
                 ELSE clientExplosionArmReturns(bomb_pos, c, i, r + 1)
            ELSE c.explosion_radius < UINT16_MAX

\* c.bombs[id].position: std::map::operator[] value-initialises the Bomb of
\* an id the map does not hold.
clientBombPosition(c, id) ==
    IF id \in DOMAIN c.bombs THEN c.bombs[id].position ELSE Position(0, 0)

\* BombExploded::calcExplosion
clientCalcExplosion(e, c) ==
    UNION {clientExplosionArm(clientBombPosition(c, e.id), c, i, 0) : i \in 1 .. DIRECTIONS}

\* BombExploded::calcExplosion returns.
clientCalcExplosionReturns(e, c) ==
    \A i \in 1 .. DIRECTIONS :
        clientExplosionArmReturns(clientBombPosition(c, e.id), c, i, 0)

\* BombPlaced::apply
applyBombPlaced(e, c) ==
    [c EXCEPT !.bombs = MapPut(@, e.id, Bomb(e.position, c.bomb_timer))]

\* An apply of BombExploded that keeps the bomb in the map.
applyBombExploded_keep(e, c) ==
    [c EXCEPT !.explosions = @ \cup clientCalcExplosion(e, c),
              !.blocks_destroyed_in_turn = @ \cup Range(e.blocks_destroyed),
              !.robots_destroyed_in_turn = @ \cup Range(e.robots_destroyed),
              !.player_positions =
                  [p \in DOMAIN @ \ Range(e.robots_destroyed) |-> @[p]]]
\* BombExploded::apply
applyBombExploded(e, c) ==
    [c EXCEPT !.explosions = @ \cup clientCalcExplosion(e, c),
              !.blocks_destroyed_in_turn = @ \cup Range(e.blocks_destroyed),
              !.robots_destroyed_in_turn = @ \cup Range(e.robots_destroyed),
              !.player_positions =
                  [p \in DOMAIN @ \ Range(e.robots_destroyed) |-> @[p]],
              !.bombs = MapErase(@, e.id)]

\* PlayerMoved::apply
applyPlayerMoved(e, c) ==
    [c EXCEPT !.player_positions = MapPut(@, e.id, e.position)]

\* BlockPlaced::apply
applyBlockPlaced(e, c) == [c EXCEPT !.blocks = @ \cup {e.position}]

\* The std::visit of ServerHandler::handle(const Turn&) on one event.
applyEvent(e, c) ==
    CASE e.type = "BombPlaced" -> applyBombPlaced(e, c)
      [] e.type = "BombExploded" -> applyBombExploded(e, c)
      [] e.type = "PlayerMoved" -> applyPlayerMoved(e, c)
      [] e.type = "BlockPlaced" -> applyBlockPlaced(e, c)

\* The loop over m.events of ServerHandler::handle(const Turn&), from event
\* k on.
RECURSIVE applyEventsFrom(_, _, _)
applyEventsFrom(events, k, c) ==
    IF k > Len(events) THEN c
    ELSE applyEventsFrom(events, k + 1, applyEvent(events[k], c))

\* The loop over m.events returns: every calcExplosion in it does.
RECURSIVE applyEventsReturnFrom(_, _, _)
applyEventsReturnFrom(events, k, c) ==
    IF k > Len(events) THEN TRUE
    ELSE /\ events[k].type = "BombExploded" => clientCalcExplosionReturns(events[k], c)
         /\ applyEventsReturnFrom(events, k + 1, applyEvent(events[k], c))

\* ---- ClientState::write ----
\* ClientState::writeLobby: the datagram, field by field.
writeLobby(c) ==
    [type |-> "Lobby", players_count |-> c.players_count,
     size_x |-> c.size_x, size_y |-> c.size_y, game_length |-> c.game_length,
     explosion_radius |-> c.explosion_radius, bomb_timer |-> c.bomb_timer,
     players |-> c.players]

\* ClientState::toList
toList(bombs) ==
    LET ids == Ascending(DOMAIN bombs) IN [k \in 1 .. Len(ids) |-> bombs[ids[k]]]

\* ClientState::writeGame: maps in key order, sets as ascending lists.
writeGame(c) ==
    [type |-> "Game", size_x |-> c.size_x, size_y |-> c.size_y,
     game_length |-> c.game_length, turn |-> c.turn, players |-> c.players,
     player_positions |-> c.player_positions,
     blocks |-> AscendingPositions(c.blocks), bombs |-> toList(c.bombs),
     explosions |-> AscendingPositions(c.explosions), scores |-> c.scores]

\* ClientState::write, into the cleared output buffer of the UdpSocket.
clientWrite(c) == IF c.is_lobby THEN <<writeLobby(c)>> ELSE <<writeGame(c)>>

\* ---- ServerHandler::handle ----
\* ServerHandler::handle(const Hello&), the state it leaves.
handleHello(m, c) ==
    [c EXCEPT !.players_count = m.players_count,
              !.size_x = m.size_x, !.size_y = m.size_y,
              !.game_length = m.game_length,
              !.explosion_radius = m.explosion_radius,
              !.bomb_timer = m.bomb_timer]

\* ServerHandler::handle(const AcceptedPlayer&), the state it leaves.
handleAcceptedPlayer(m, c) == [c EXCEPT !.players = MapPut(@, m.id, m.player)]

\* ServerHandler::handle(const GameStarted&)
handleGameStarted(m, c) ==
    [c EXCEPT !.scores = [id \in DOMAIN m.players |-> 0],
              !.blocks = {}, !.bombs = EmptyMap, !.explosions = {},
              !.is_lobby = FALSE, !.players = m.players]

\* A handle(const Turn&) that leaves the timers of the bombs alone.
handleTurn_noTimers(m, c) ==
    LET cleared == [c EXCEPT !.turn = m.turn, !.explosions = {},
                             !.blocks_destroyed_in_turn = {},
                             !.robots_destroyed_in_turn = {}]
        applied == applyEventsFrom(m.events, 1, cleared)
    IN [applied EXCEPT
            !.scores = [p \in DOMAIN @ \cup applied.robots_destroyed_in_turn |->
                IF p \in applied.robots_destroyed_in_turn
                THEN scoreAt(@, p) + 1 ELSE @[p]],
            !.blocks = @ \ applied.blocks_destroyed_in_turn]
\* ServerHandler::handle(const Turn&), the state it leaves: --bomb.timer is
\* on a uint16_t, and scores[p] is created with 0 when missing.
handleTurn(m, c) ==
    LET cleared == [c EXCEPT !.turn = m.turn, !.explosions = {},
                             !.blocks_destroyed_in_turn = {},
                             !.robots_destroyed_in_turn = {},
                             !.bombs = [id \in DOMAIN @ |->
                                 Bomb(@[id].position, (@[id].timer - 1) % UINT16_MOD)]]
        applied == applyEventsFrom(m.events, 1, cleared)
    IN [applied EXCEPT
            !.scores = [p \in DOMAIN @ \cup applied.robots_destroyed_in_turn |->
                IF p \in applied.robots_destroyed_in_turn
                THEN scoreAt(@, p) + 1 ELSE @[p]],
            !.blocks = @ \ applied.blocks_destroyed_in_turn]

\* ServerHandler::handle(const GameEnded&), the state it leaves.
handleGameEnded(m, c) ==
    [c EXCEPT !.is_lobby = TRUE, !.scores = m.scores, !.players = EmptyMap,
              !.blocks = {}, !.bombs = EmptyMap, !.explosions = {}]

\* The frame types of the switch in ServerHandler::handleMessage.
ServerMessageTypes == {"Hello", "AcceptedPlayer", "GameStarted", "Turn", "GameEnded"}

\* The switch of ServerHandler::handleMessage: the state handle(m) leaves.
handle(m, c) ==
    CASE m.type = "Hello" -> handleHello(m, c)
      [] m.type = "AcceptedPlayer" -> handleAcceptedPlayer(m, c)
      [] m.type = "GameStarted" -> handleGameStarted(m, c)
      [] m.type = "Turn" -> handleTurn(m, c)
      [] m.type = "GameEnded" -> handleGameEnded(m, c)

\* The switch of ServerHandler::handleMessage: what handle(m) writes for the
\* GUI.  handle(const GameStarted&) writes nothing.
handleOutput(m, c) == IF m.type = "GameStarted" THEN <<>> ELSE clientWrite(handle(m, c))

\* handle(m) returns: the loops of handle(const Turn&) end.
handleReturns(m, c) ==
    m.type = "Turn" =>
        applyEventsReturnFrom(m.events, 1,
            [c EXCEPT !.bombs = [id \in DOMAIN @ |->
                Bomb(@[id].position, (@[id].timer - 1) % UINT16_MOD)]])

\* ServerHandler::run over the frames stream[k], stream[k + 1], ... that TCP
\* delivers in order: the state after handleMessage has handled each.
RECURSIVE applyFramesFrom(_, _, _)
applyFramesFrom(stream, k, c) ==
    IF k > Len(stream) THEN c
    ELSE applyFramesFrom(stream, k + 1, handle(stream[k], c))

\* The ClientState of a client constructed by run() that has handled the
\* frames of stream.
clientAfter(stream) == applyFramesFrom(stream, 1, ClientState(env.player_name))

\* The frames the server has produced for connection c, in the order TCP
\* carries them: those its writer has sent and those waiting in its queue.
StreamTo(c) == sent[c] \o queue[c]

\* ---- ClientState::mutex ----
\* A lock that excludes nobody.
mutexFree_always(m) == TRUE
\* std::scoped_lock lock(state.mutex) goes through once no thread holds the
\* mutex.
mutexFree(m) == m = "free"

\* ---- the threads ----
clientRuns == gui_handler.pc # "exited" /\ server_handler.pc # "exited"

\* exit(EXIT_FAILURE) of the catch blocks of run(): the process ends with
\* both of its threads.
clientExit ==
    /\ gui_handler' = [gui_handler EXCEPT !.pc = "exited"]
    /\ server_handler' = [server_handler EXCEPT !.pc = "exited"]
    /\ client_mutex' = "free"

\* GuiHandler::handleMessage, gui.receive(): a datagram of the GUI arrives.
guiReceive(datagram) ==
    /\ clientRuns
    /\ gui_handler.pc = "receive"
    /\ gui_handler.received < env.datagrams
    /\ gui_handler' = [pc |-> "lock", input |-> datagram,
                       received |-> gui_handler.received + 1]
    /\ UNCHANGED <<lock_vars, params, server_vars, queue_vars, thread_vars, gm_vars, log,
                   connect_at, env, client_state, client_mutex,
                   server_handler, server_output, client_sent, gui_output,
                   gui_sent, client_log>>

\* GuiHandler::handleMessage, std::scoped_lock lock(state.mutex).
guiLock ==
    /\ clientRuns
    /\ gui_handler.pc = "lock"
    /\ mutexFree(client_mutex)
    /\ client_mutex' = "gui"
    /\ gui_handler' = [gui_handler EXCEPT !.pc = "handle"]
    /\ UNCHANGED <<lock_vars, params, server_vars, queue_vars, thread_vars, gm_vars, log,
                   connect_at, env, client_state, server_handler,
                   server_output, client_sent, gui_output, gui_sent,
                   client_log>>

\* GuiHandler::handleMessage from server.clearOutput() to the call of
\* server.send(); a datagram that matches no branch is ignored, the
\* function returns and the lock is released.
guiHandleMessage ==
    /\ clientRuns
    /\ gui_handler.pc = "handle"
    /\ LET input == gui_handler.input
           cleared == <<>>
       IN IF isGuiPlaceBomb(input)
          THEN /\ server_output' = handlePlaceBomb(cleared, client_state)
               /\ gui_handler' = [gui_handler EXCEPT !.pc = "send"]
               /\ UNCHANGED client_mutex
          ELSE IF isGuiPlaceBlock(input)
          THEN /\ server_output' = handlePlaceBlock(cleared, client_state)
               /\ gui_handler' = [gui_handler EXCEPT !.pc = "send"]
               /\ UNCHANGED client_mutex
          ELSE IF isGuiMove(input)
          THEN /\ server_output' = handleMove(cleared, input[2], client_state)
               /\ gui_handler' = [gui_handler EXCEPT !.pc = "send"]
               /\ UNCHANGED client_mutex
          ELSE /\ server_output' = cleared
               /\ gui_handler' = [gui_handler EXCEPT !.pc = "receive"]
               /\ client_mutex' = "free"
    /\ UNCHANGED <<lock_vars, params, server_vars, queue_vars, thread_vars, gm_vars, log,
                   connect_at, env, client_state, server_handler, client_sent,
                   gui_output, gui_sent, client_log>>

\* GuiHandler::handleMessage, server.send() and the return: TcpConnection::
\* send writes the buffer to the socket unless it is empty, and the lock is
\* released.
guiSend ==
    /\ clientRuns
    /\ gui_handler.pc = "send"
    /\ IF server_output = <<>>
       THEN UNCHANGED <<client_sent, server_output>>
       ELSE /\ client_sent' = Append(client_sent, server_output)
            /\ server_output' = <<>>
    /\ client_mutex' = "free"
    /\ gui_handler' = [gui_handler EXCEPT !.pc = "receive"]
    /\ UNCHANGED <<lock_vars, params, server_vars, queue_vars, thread_vars, gm_vars, log,
                   connect_at, env, client_state, server_handler, gui_output,
                   gui_sent, client_log>>

\* GuiHandler::handleMessage, server.send() when asio::write reports an
\* error: TcpConnection::send throws, run() catches and exits.
guiSendFail ==
    /\ clientRuns
    /\ gui_handler.pc = "send"
    /\ server_output # <<>>
    /\ clientExit
    /\ UNCHANGED <<lock_vars, params, server_vars, queue_vars, thread_vars, gm_vars, log,
                   connect_at, env, client_state, server_output, client_sent,
                   gui_output, gui_sent, client_log>>

\* ServerHandler::run and handleMessage, gui.clearOutput() and
\* server.readU8(): the type byte of the next frame of the server arrives.
\* The model takes the frame whole here; the code reads its body under the
\* lock.
serverReadU8(m) ==
    /\ clientRuns
    /\ server_handler.pc = "read"
    /\ server_handler.received < env.stream
    /\ server_handler' = [pc |-> "lock", message |-> m,
                          received |-> server_handler.received + 1]
    /\ gui_output' = <<>>
    /\ UNCHANGED <<lock_vars, params, server_vars, queue_vars, thread_vars, gm_vars, log,
                   connect_at, env, client_state, client_mutex, gui_handler,
                   server_output, client_sent, gui_sent, client_log>>

\* ServerHandler::handleMessage, server.readU8() when the server has closed
\* the connection: TcpConnection::receive throws, run() catches and exits.
serverReadFail ==
    /\ clientRuns
    /\ server_handler.pc = "read"
    /\ clientExit
    /\ UNCHANGED <<lock_vars, params, server_vars, queue_vars, thread_vars, gm_vars, log,
                   connect_at, env, client_state, server_output, client_sent,
                   gui_output, gui_sent, client_log>>

\* ServerHandler::handleMessage, std::scoped_lock lock(state.mutex).
serverLock ==
    /\ clientRuns
    /\ server_handler.pc = "lock"
    /\ mutexFree(client_mutex)
    /\ client_mutex' = "server"
    /\ server_handler' = [server_handler EXCEPT !.pc = "handle"]
    /\ UNCHANGED <<lock_vars, params, server_vars, queue_vars, thread_vars, gm_vars, log,
                   connect_at, env, client_state, gui_handler, server_output,
                   client_sent, gui_output, gui_sent, client_log>>

\* ServerHandler::handleMessage, the switch and the return: handle(m)
\* changes the state and writes the datagram for the GUI, and the lock is
\* released; a type byte the switch does not know makes it throw, and run()
\* catches and exits.
serverHandleMessage ==
    /\ clientRuns
    /\ server_handler.pc = "handle"
    /\ LET m == server_handler.message
       IN IF m.type \in ServerMessageTypes
          THEN /\ handleReturns(m, client_state)
               /\ client_state' = handle(m, client_state)
               /\ gui_output' = handleOutput(m, client_state)
               /\ client_log' = Append(client_log, m.type)
               /\ client_mutex' = "free"
               /\ server_handler' = [server_handler EXCEPT !.pc = "send"]
               /\ UNCHANGED gui_handler
          ELSE /\ clientExit
               /\ UNCHANGED <<client_state, gui_output, client_log>>
    /\ UNCHANGED <<lock_vars, params, server_vars, queue_vars, thread_vars, gm_vars, log,
                   connect_at, env, server_output, client_sent, gui_sent>>

\* ServerHandler::run, gui.send(): UdpSocket::send sends the datagram
\* unless the buffer is empty.
serverGuiSend ==
    /\ clientRuns
    /\ server_handler.pc = "send"
    /\ gui_sent' = gui_sent \o gui_output
    /\ server_handler' = [server_handler EXCEPT !.pc = "read"]
    /\ UNCHANGED <<lock_vars, params, server_vars, queue_vars, thread_vars, gm_vars, log,
                   connect_at, env, client_state, client_mutex, gui_handler,
                   server_output, client_sent, gui_output, client_log>>

(***************************************************************************)
(* The threads of the server at the grain of their mutexes.  Every public  *)
(* operation of Server is a std::unique_lock on Server::mutex followed by  *)
(* its body; every operation of a BlockingQueue is a std::unique_lock on   *)
(* the queue's mutex followed by its body; a wait on a condition variable  *)
(* gives the mutex back while it waits.  shared keeps of the tables what   *)
(* the waits and the broadcasts depend on: who is in the tables, which     *)
(* queues are open and how many frames they hold.                          *)
(***************************************************************************)
NoThread == <<"none", 0>>
Acceptor == <<"acceptor", 0>>
Manager == <<"manager", 0>>
Receiver(c) == <<"reader", c>>
Sender(c) == <<"writer", c>>
\* A thread is in the call op (of Server, or pop/send/close of the writer's
\* loop, accept/read of the network); step says how far it got: idle (in a
\* call of the network), lock (waiting for Server::mutex), held (holding
\* it, body still to run), wait (in condition_variable::wait), q_lock
\* (waiting for the mutex of a queue for the queue's operation call), q_held
\* (holding it), unlock (the queues are done, Server::mutex still held),
\* done (run() has returned).
At(op, step, call) == [op |-> op, step |-> step, call |-> call]
atomic_vars == <<params, server_vars, queue_vars, thread_vars, gm_vars, log,
                 connect_at, env, client_vars>>

\* The state after main() has constructed the Server: the acceptor is in
\* accept(), the game manager calls waitForPlayersToStartGame.
InitLocks ==
    /\ server_mutex = NoThread
    /\ queue_mutex = EmptyMap
    /\ lock_pc = (Acceptor :> At("accept", "idle", "none"))
                    @@ (Manager :> At("waitForPlayersToStartGame", "lock", "none"))
    /\ shared = [players |-> {}, player_ids |-> EmptyMap,
                 client_message_queues |-> {}, is_open |-> EmptyMap,
                 size |-> EmptyMap, message_history |-> 1,
                 next_client_id |-> 0, is_lobby |-> TRUE, client_id |-> 0,
                 visit |-> <<>>, turn |-> 0, games |-> 0, closed |-> {}]

Threads == DOMAIN lock_pc
\* The queue a thread is about to lock or holds locked: a writer's own, and
\* for a thread inside Server the one its loop over the table has reached.
Target(t) == IF t[1] = "writer" THEN t[2] ELSE Head(shared.visit)
goto(t, op, step, call) == lock_pc' = [lock_pc EXCEPT ![t] = At(op, step, call)]

\* std::unique_lock lock(mutex) at the head of a Server operation.
lockServer(t) ==
    /\ lock_pc[t].step = "lock"
    /\ server_mutex = NoThread
    /\ server_mutex' = t
    /\ lock_pc' = [lock_pc EXCEPT ![t].step = "held"]
    /\ UNCHANGED <<queue_mutex, shared, atomic_vars>>

\* std::unique_lock lock(mutex) at the head of a BlockingQueue operation.
lockQueue(t) ==
    /\ lock_pc[t].step = "q_lock"
    /\ queue_mutex[Target(t)] = NoThread
    /\ queue_mutex' = [queue_mutex EXCEPT ![Target(t)] = t]
    /\ lock_pc' = [lock_pc EXCEPT ![t].step = "q_held"]
    /\ UNCHANGED <<server_mutex, shared, atomic_vars>>

\* Server::broadcast, entered with Server::mutex held: the history gets the
\* frame and the loop over client_message_queues starts.
startBroadcast(t, sh) ==
    LET visit == Ascending(sh.client_message_queues) IN
    /\ shared' = [sh EXCEPT !.message_history = @ + 1, !.visit = visit]
    /\ lock_pc' = [lock_pc EXCEPT ![t] =
                      IF visit = <<>> THEN At(@.op, "unlock", "none")
                      ELSE At(@.op, "q_lock", "isOpen")]
\* Server::broadcast, the loop goes on to the next queue of the table.
nextQueue(t, sh) ==
    /\ shared' = [sh EXCEPT !.visit = Tail(@)]
    /\ lock_pc' = [lock_pc EXCEPT ![t] =
                      IF Tail(sh.visit) = <<>> THEN At(@.op, "unlock", "none")
                      ELSE At(@.op, "q_lock", "isOpen")]

\* BlockingQueue::isOpen, called by Server::broadcast.
isOpen(t) ==
    /\ lock_pc[t].step = "q_held" /\ lock_pc[t].call = "isOpen"
    /\ queue_mutex' = [queue_mutex EXCEPT ![Target(t)] = NoThread]
    /\ IF shared.is_open[Target(t)]
       THEN /\ lock_pc' = [lock_pc EXCEPT ![t] = At(@.op, "q_lock", "push")]
            /\ UNCHANGED shared
       ELSE nextQueue(t, shared)
    /\ UNCHANGED <<server_mutex, atomic_vars>>

\* BlockingQueue::push, called by Server::broadcast.
push(t) ==
    /\ lock_pc[t].step = "q_held" /\ lock_pc[t].call = "push"
    /\ queue_mutex' = [queue_mutex EXCEPT ![Target(t)] = NoThread]
    /\ nextQueue(t, [shared EXCEPT !.size[Target(t)] = @ + 1])
    /\ UNCHANGED <<server_mutex, atomic_vars>>

\* BlockingQueue::close, called by Server::eraseClient (which goes on to
\* erase the client's queue from the table) and by the catch block of
\* MessageSender::run (which then returns).
close(t) ==
    /\ lock_pc[t].step = "q_held" /\ lock_pc[t].call = "close"
    /\ queue_mutex' = [queue_mutex EXCEPT ![Target(t)] = NoThread]
    /\ shared' = [shared EXCEPT !.is_open[Target(t)] = FALSE]
    /\ IF t[1] = "writer"
       THEN goto(t, "run", "done", "none")
       ELSE goto(t, "eraseClient", "unlock", "none")
    /\ UNCHANGED <<server_mutex, atomic_vars>>

\* A pop() whose wait keeps the mutex of the queue.
pop_waitHolding(t) ==
    /\ lock_pc[t].step = "q_held" /\ lock_pc[t].call = "pop"
    /\ LET c == Target(t) IN
        IF ~shared.is_open[c]
        THEN /\ queue_mutex' = [queue_mutex EXCEPT ![c] = NoThread]
             /\ shared' = [shared EXCEPT !.closed = @ \cup {c}]
             /\ goto(t, "close", "q_lock", "close")
        ELSE IF shared.size[c] > 0
        THEN /\ queue_mutex' = [queue_mutex EXCEPT ![c] = NoThread]
             /\ shared' = [shared EXCEPT !.size[c] = @ - 1]
             /\ goto(t, "send", "idle", "none")
        ELSE /\ UNCHANGED <<queue_mutex, shared>>
             /\ goto(t, "pop", "wait", "pop")
    /\ UNCHANGED <<server_mutex, atomic_vars>>
\* BlockingQueue::pop with the mutex held: the predicate of the wait is
\* false (the thread waits and gives the mutex back), or the queue is
\* closed (throw; the catch block closes the connection and calls close()),
\* or the front frame is taken.
pop(t) ==
    /\ lock_pc[t].step = "q_held" /\ lock_pc[t].call = "pop"
    /\ LET c == Target(t) IN
        /\ queue_mutex' = [queue_mutex EXCEPT ![c] = NoThread]
        /\ IF ~shared.is_open[c]
           THEN /\ shared' = [shared EXCEPT !.closed = @ \cup {c}]
                /\ goto(t, "close", "q_lock", "close")
           ELSE IF shared.size[c] > 0
           THEN /\ shared' = [shared EXCEPT !.size[c] = @ - 1]
                /\ goto(t, "send", "idle", "none")
           ELSE /\ UNCHANGED shared
                /\ goto(t, "pop", "wait", "pop")
    /\ UNCHANGED <<server_mutex, atomic_vars>>

\* The predicates of the two waits.
framesOrClosed(c) == shared.size[c] > 0 \/ ~shared.is_open[c]
playersJoined == Cardinality(shared.players) = params.players_count
\* cv.wait in BlockingQueue::pop: push and close notify after they changed
\* what the predicate reads; the woken thread takes the mutex again.  (A
\* thread woken while the predicate is false goes back to waiting.)
popWakes(t) ==
    /\ lock_pc[t] = At("pop", "wait", "pop")
    /\ framesOrClosed(Target(t))
    /\ queue_mutex[Target(t)] = NoThread
    /\ queue_mutex' = [queue_mutex EXCEPT ![Target(t)] = t]
    /\ lock_pc' = [lock_pc EXCEPT ![t].step = "q_held"]
    /\ UNCHANGED <<server_mutex, shared, atomic_vars>>
\* players_joined.wait in Server::waitForPlayersToStartGame; tryAcceptPlayer
\* notifies after it inserted a player.
playersWakes(t) ==
    /\ lock_pc[t] = At("waitForPlayersToStartGame", "wait", "none")
    /\ playersJoined
    /\ shared.games < env.games
    /\ server_mutex = NoThread
    /\ server_mutex' = t
    /\ lock_pc' = [lock_pc EXCEPT ![t].step = "held"]
    /\ UNCHANGED <<queue_mutex, shared, atomic_vars>>

\* The bodies of the Server operations that touch no queue, run with
\* Server::mutex held and left by giving it back.
acceptClientBody(t) ==
    /\ lock_pc[t] = At("acceptClient", "held", "none")
    /\ shared' = [shared EXCEPT !.client_id = shared.next_client_id,
                                !.next_client_id = @ + 1]
    /\ server_mutex' = NoThread
    /\ goto(t, "createMessageQueue", "lock", "none")
    /\ UNCHANGED <<queue_mutex, atomic_vars>>
\* Server::createMessageQueue, followed by the two posts of
\* ClientAcceptor::run and the next accept().
createMessageQueueBody(t) ==
    /\ lock_pc[t] = At("createMessageQueue", "held", "none")
    /\ LET c == shared.client_id IN
        /\ shared' = [shared EXCEPT !.client_message_queues = @ \cup {c},
                                    !.is_open = MapPut(@, c, TRUE),
                                    !.size = MapPut(@, c, shared.message_history)]
        /\ queue_mutex' = MapPut(queue_mutex, c, NoThread)
        /\ lock_pc' = (Sender(c) :> At("pop", "q_lock", "pop"))
                         @@ (Receiver(c) :> At("read", "idle", "none"))
                         @@ [lock_pc EXCEPT ![t] = At("accept", "idle", "none")]
    /\ server_mutex' = NoThread
    /\ UNCHANGED atomic_vars
setLastMessageBody(t) ==
    /\ lock_pc[t] = At("setLastMessage", "held", "none")
    /\ server_mutex' = NoThread
    /\ goto(t, "read", "idle", "none")
    /\ UNCHANGED <<queue_mutex, shared, atomic_vars>>
collectLastMessagesFromClientsBody(t) ==
    /\ lock_pc[t] = At("collectLastMessagesFromClients", "held", "none")
    /\ server_mutex' = NoThread
    /\ goto(t, "closeTurn", "lock", "none")
    /\ UNCHANGED <<queue_mutex, shared, atomic_vars>>

\* Server::tryAcceptPlayer up to the broadcast; a Join that is ignored
\* leaves the operation at once.
tryAcceptPlayerBody(t) ==
    /\ lock_pc[t] = At("tryAcceptPlayer", "held", "none")
    /\ LET c == t[2]
           ids == shared.player_ids IN
        IF /\ shared.is_lobby
           /\ c \notin DOMAIN ids
           /\ Cardinality(DOMAIN ids) < params.players_count
        THEN /\ startBroadcast(t, [shared EXCEPT
                    !.player_ids = MapPut(ids, c, Cardinality(DOMAIN ids)),
                    !.players = @ \cup {Cardinality(DOMAIN ids)}])
             /\ UNCHANGED server_mutex
        ELSE /\ server_mutex' = NoThread
             /\ goto(t, "read", "idle", "none")
             /\ UNCHANGED shared
    /\ UNCHANGED <<queue_mutex, atomic_vars>>
\* Server::eraseClient up to the close() of the client's queue.
eraseClientBody(t) ==
    /\ lock_pc[t] = At("eraseClient", "held", "none")
    /\ LET c == t[2] IN
        /\ shared' = [shared EXCEPT
                        !.players = @ \ {PlayerIdAt(shared.player_ids, c)},
                        !.player_ids = MapErase(@, c),
                        !.visit = <<c>>]
        /\ IF c \in shared.client_message_queues
           THEN goto(t, "eraseClient", "q_lock", "close")
           ELSE goto(t, "eraseClient", "unlock", "none")
    /\ UNCHANGED <<server_mutex, queue_mutex, atomic_vars>>
\* Server::waitForPlayersToStartGame with the mutex held: the wait gives it
\* back while the predicate is false; otherwise startGame broadcasts.
waitForPlayersToStartGameBody(t) ==
    /\ lock_pc[t] = At("waitForPlayersToStartGame", "held", "none")
    /\ IF playersJoined /\ shared.games < env.games
       THEN /\ startBroadcast(t, [shared EXCEPT !.is_lobby = FALSE,
                                                !.message_history = 1, !.turn = 0])
            /\ UNCHANGED server_mutex
       ELSE /\ server_mutex' = NoThread
            /\ goto(t, "waitForPlayersToStartGame", "wait", "none")
            /\ UNCHANGED shared
    /\ UNCHANGED <<queue_mutex, atomic_vars>>
\* Server::closeTurn and Server::endGame up to the broadcast.
closeTurnBody(t) ==
    /\ lock_pc[t] = At("closeTurn", "held", "none")
    /\ startBroadcast(t, shared)
    /\ UNCHANGED <<server_mutex, queue_mutex, atomic_vars>>
endGameBody(t) ==
    /\ lock_pc[t] = At("endGame", "held", "none")
    /\ startBroadcast(t, shared)
    /\ UNCHANGED <<server_mutex, queue_mutex, atomic_vars>>

\* The end of a Server operation that went through the queues: what is
\* left of its body, and the mutex is given back.  The game manager goes on
\* with GameManager::run: closeTurn(0) after the start, the turns 1 ..
\* game_length, endGame, and the next waitForPlayersToStartGame.
unlockServer(t) ==
    /\ lock_pc[t].step = "unlock"
    /\ server_mutex' = NoThread
    /\ LET op == lock_pc[t].op IN
        CASE op = "tryAcceptPlayer" ->
                goto(t, "read", "idle", "none") /\ UNCHANGED shared
          [] op = "eraseClient" ->
                /\ goto(t, "run", "done", "none")
                /\ shared' = [shared EXCEPT !.client_message_queues = @ \ {t[2]}]
          [] op = "waitForPlayersToStartGame" ->
                goto(t, "closeTurn", "lock", "none") /\ UNCHANGED shared
          [] op = "closeTurn" ->
                IF shared.turn = params.game_length
                THEN goto(t, "endGame", "lock", "none") /\ UNCHANGED shared
                ELSE /\ goto(t, "collectLastMessagesFromClients", "lock", "none")
                     /\ shared' = [shared EXCEPT !.turn = @ + 1]
          [] op = "endGame" ->
                /\ goto(t, "waitForPlayersToStartGame", "lock", "none")
                /\ shared' = [shared EXCEPT !.is_lobby = TRUE, !.players = {},
                                            !.player_ids = EmptyMap,
                                            !.message_history = 1,
                                            !.games = @ + 1]
    /\ UNCHANGED <<queue_mutex, atomic_vars>>

\* The peers.  A client connects; a client sends a Join or an intent, or
\* its connection breaks (or was closed by its writer); a peer takes the
\* frame a writer sends, or the send fails.
connects ==
    /\ lock_pc[Acceptor] = At("accept", "idle", "none")
    /\ shared.next_client_id < env.clients
    /\ goto(Acceptor, "acceptClient", "lock", "none")
    /\ UNCHANGED <<server_mutex, queue_mutex, shared, atomic_vars>>
mayBreak(c) == c \in shared.closed \/ Cardinality(shared.closed) < env.faults
receives(c, m) ==
    /\ lock_pc[Receiver(c)] = At("read", "idle", "none")
    /\ m \in env.frames
    /\ goto(Receiver(c), IF m = Join THEN "tryAcceptPlayer" ELSE "setLastMessage",
            "lock", "none")
    /\ UNCHANGED <<server_mutex, queue_mutex, shared, atomic_vars>>
readFails(c) ==
    /\ lock_pc[Receiver(c)] = At("read", "idle", "none")
    /\ mayBreak(c)
    /\ shared' = [shared EXCEPT !.closed = @ \cup {c}]
    /\ goto(Receiver(c), "eraseClient", "lock", "none")
    /\ UNCHANGED <<server_mutex, queue_mutex, atomic_vars>>
sendReturns(c) ==
    /\ lock_pc[Sender(c)] = At("send", "idle", "none")
    /\ c \notin shared.closed
    /\ goto(Sender(c), "pop", "q_lock", "pop")
    /\ UNCHANGED <<server_mutex, queue_mutex, shared, atomic_vars>>
sendFails(c) ==
    /\ lock_pc[Sender(c)] = At("send", "idle", "none")
    /\ mayBreak(c)
    /\ shared' = [shared EXCEPT !.closed = @ \cup {c}]
    /\ goto(Sender(c), "close", "q_lock", "close")
    /\ UNCHANGED <<server_mutex, queue_mutex, atomic_vars>>

LockClients == {t[2] : t \in {u \in Threads : u[1] = "reader"}}
NextLocks ==
    \/ \E t \in Threads : lockServer(t)
    \/ \E t \in Threads : lockQueue(t)
    \/ \E t \in Threads : isOpen(t)
    \/ \E t \in Threads : push(t)
    \/ \E t \in Threads : close(t)
    \/ \E t \in Threads : pop(t)
    \/ \E t \in Threads : popWakes(t)
    \/ \E t \in Threads : playersWakes(t)
    \/ \E t \in Threads : acceptClientBody(t)
    \/ \E t \in Threads : createMessageQueueBody(t)
    \/ \E t \in Threads : setLastMessageBody(t)
    \/ \E t \in Threads : collectLastMessagesFromClientsBody(t)
    \/ \E t \in Threads : tryAcceptPlayerBody(t)
    \/ \E t \in Threads : eraseClientBody(t)
    \/ \E t \in Threads : waitForPlayersToStartGameBody(t)
    \/ \E t \in Threads : closeTurnBody(t)
    \/ \E t \in Threads : endGameBody(t)
    \/ \E t \in Threads : unlockServer(t)
    \/ connects
    \/ \E c \in LockClients : \E m \in env.frames : receives(c, m)
    \/ \E c \in LockClients : readFails(c)
    \/ \E c \in LockClients : sendReturns(c)
    \/ \E c \in LockClients : sendFails(c)

(***************************************************************************)
(* Specification.                                                          *)
(***************************************************************************)
\* The state after main() has constructed the Server and the GameManager
\* from the parameters p, in a run whose peers behave as e allows.
InitWith(p, e) ==
    /\ params = p
    /\ env = e
    /\ players = EmptyMap
    /\ player_ids = EmptyMap
    /\ client_message_queues = {}
    /\ last_messages_from_clients = EmptyMap
    /\ next_client_id = 0
    /\ is_lobby = TRUE
    /\ message_history = initializeMessageHistory
    /\ queue = EmptyMap
    /\ is_open = EmptyMap
    /\ seen_open = {}
    /\ acceptor = [pc |-> "accept", client_id |-> 0]
    /\ reader = EmptyMap
    /\ writer = EmptyMap
    /\ tcp_open = EmptyMap
    /\ sent = EmptyMap
    /\ gm = [pc |-> "wait", turn |-> 0, players |-> EmptyMap, events |-> <<>>,
             client_messages |-> EmptyMap, games |-> 0]
    /\ state = GameState
    /\ random = randomSeed(p.seed)
    /\ log = <<>>
    /\ connect_at = EmptyMap
    /\ client_state = ClientState(e.player_name)
    /\ client_mutex = "free"
    /\ gui_handler = [pc |-> "receive", input |-> <<>>, received |-> 0]
    /\ server_handler = [pc |-> "read", message |-> [type |-> "none"], received |-> 0]
    /\ server_output = <<>>
    /\ client_sent = <<>>
    /\ gui_output = <<>>
    /\ gui_sent = <<>>
    /\ client_log = <<>>
    /\ InitLocks

\* ServerParams as parseParams accepts them.
ServerParams(bomb_timer, players_count, explosion_radius, initial_blocks, game_length, seed, size_x, size_y) ==
    [bomb_timer |-> bomb_timer, players_count |-> players_count,
     explosion_radius |-> explosion_radius, initial_blocks |-> initial_blocks,
     game_length |-> game_length, seed |-> seed,
     size_x |-> size_x, size_y |-> size_y]

\* The peers of one run: the frames they send, and the bounds of the run.
Environment(frames) ==
    [frames |-> frames, clients |-> MaxClients, faults |-> MaxFaults,
     sends |-> MaxSends, games |-> MaxGames, datagrams |-> 0, stream |-> 0,
     player_name |-> <<110>>]

\* One player on a board of one cell, games of two turns; the clients send
\* Join and Move.
Init ==
    InitWith(ServerParams(1, 1, 1, 0, 2, 1, 1, 1),
             Environment({Join, Move(UP)}))

\* Two players on a board of one cell, games of two turns, bombs that explode
\* in the turn after they are placed; the clients send Join and PlaceBomb.
InitScores ==
    InitWith(ServerParams(1, 2, 1, 0, 2, 1, 1, 1),
             Environment({Join, PlaceBomb}))

\* One player, games of one turn; the clients send Join and two different
\* intents.
InitIntents ==
    InitWith(ServerParams(1, 1, 1, 0, 1, 1, 1, 1),
             Environment({Join, PlaceBomb, PlaceBlock}))

\* The peers of a run in which one client connects, its connection never
\* breaks and it reads nothing of what the server sends.
QuietEnvironment(frames) ==
    [Environment(frames) EXCEPT !.clients = 1, !.faults = 0, !.sends = 0]

\* One player on boards of up to three by three cells, with every kind of
\* explosion radius (none, shorter than the board, longer than the board,
\* the greatest accepted); bombs explode in the turn after they are placed.
InitExplosion ==
    \E size_x \in 1 .. 3, size_y \in 1 .. 3, explosion_radius \in {0, 1, 2, 3, UINT16_MAX} :
        InitWith(ServerParams(1, 1, explosion_radius, 0, 2, 1, size_x, size_y),
                 QuietEnvironment({Join, PlaceBomb}))

\* One player on a board of two by two cells with one initial block, games
\* of four turns, bombs that explode one, two or three turns after they are
\* placed; the client sends Join and every kind of intent.
InitGame ==
    \E bomb_timer \in 1 .. 3 :
        InitWith(ServerParams(bomb_timer, 1, 1, 1, 4, 1, 2, 2),
                 QuietEnvironment({Join} \cup Intents))

\* Two players on a board of two by two cells with two initial blocks, games
\* of two turns, for several seeds; the clients send Join and no intent.
InitNoIntents ==
    \E seed \in 1 .. 3 :
        InitWith(ServerParams(1, 2, 1, 2, 2, seed, 2, 2), Environment({Join}))

Clients == DOMAIN reader

Next ==
    \/ acceptClient
    \/ createMessageQueue
    \/ \E c \in Clients : receiveJoin(c)
    \/ \E c \in Clients : tryAcceptPlayer(c, Join.name, c)
    \/ \E c \in Clients : \E m \in Intents : setLastMessage(c, m)
    \/ \E c \in Clients : receiverFail(c)
    \/ \E c \in Clients : eraseClient(c)
    \/ \E c \in Clients : senderSend(c)
    \/ \E c \in Clients : senderFail(c)
    \/ waitForPlayersToStartGame
    \/ initializeGameStep
    \/ collectLastMessagesFromClients
    \/ computeTurnStep
    \/ closeTurn
    \/ endGame

\* The steps of a run in which no connection breaks and no peer reads.
NextGame ==
    \/ acceptClient
    \/ createMessageQueue
    \/ \E c \in Clients : receiveJoin(c)
    \/ \E c \in Clients : tryAcceptPlayer(c, Join.name, c)
    \/ \E c \in Clients : \E m \in Intents : setLastMessage(c, m)
    \/ waitForPlayersToStartGame
    \/ initializeGameStep
    \/ collectLastMessagesFromClients
    \/ computeTurnStep
    \/ closeTurn
    \/ endGame

Spec == Init /\ [][Next]_vars

\* The steps of a run in which no client sends an intent.
NextNoIntents ==
    \/ acceptClient
    \/ createMessageQueue
    \/ \E c \in Clients : receiveJoin(c)
    \/ \E c \in Clients : tryAcceptPlayer(c, Join.name, c)
    \/ \E c \in Clients : receiverFail(c)
    \/ \E c \in Clients : eraseClient(c)
    \/ \E c \in Clients : senderSend(c)
    \/ \E c \in Clients : senderFail(c)
    \/ waitForPlayersToStartGame
    \/ initializeGameStep
    \/ collectLastMessagesFromClients
    \/ computeTurnStep
    \/ closeTurn
    \/ endGame

SpecNoIntents == InitNoIntents /\ [][NextNoIntents]_vars

SpecExplosion == InitExplosion /\ [][NextGame]_vars

SpecGame == InitGame /\ [][NextGame]_vars

SpecIntents == InitIntents /\ [][Next]_vars

SpecScores == InitScores /\ [][Next]_vars

\* The datagrams the GUI sends: the three well-formed inputs (Move with the
\* least and the greatest direction), a Move with a direction past
\* DIRECTION_MAX, an unknown type, a wrong size for the type, and the empty
\* datagram.
GuiDatagrams ==
    {<<GUI_PLACE_BOMB>>, <<GUI_PLACE_BLOCK>>, <<GUI_MOVE, 0>>,
     <<GUI_MOVE, DIRECTION_MAX>>, <<GUI_MOVE, DIRECTION_MAX + 1>>,
     <<GUI_MOVE + 1>>, <<GUI_MOVE>>, <<GUI_PLACE_BOMB, 0>>, <<>>}

\* The frames the client reads from its server: one of each type, in any
\* order, and a frame with a type byte past GAME_ENDED.
ServerStream ==
    {Hello, AcceptedPlayer(0, Player(Join.name, 0)),
     GameStarted(0 :> Player(Join.name, 0)),
     Turn(0, <<PlayerMoved(0, Position(0, 0)), BombPlaced(0, Position(1, 0))>>),
     Turn(1, <<BombExploded(0, <<0>>, <<>>)>>),
     GameEnded(0 :> 1), [type |-> "Unrecognised"]}

\* A run of the client alone: no connection reaches the server of the
\* model, the GUI sends datagrams and the client's server sends frames.
ClientEnvironment ==
    [Environment({}) EXCEPT !.clients = 0, !.datagrams = MaxDatagrams,
                            !.stream = MaxFrames]

\* The client after run() has constructed ClientState and both handlers;
\* its server has one player on a board of two cells.
InitClient == InitWith(ServerParams(1, 1, 1, 0, 2, 1, 2, 1), ClientEnvironment)

\* The steps of the client's two threads.
NextClient ==
    \/ \E datagram \in GuiDatagrams : guiReceive(datagram)
    \/ guiLock
    \/ guiHandleMessage
    \/ guiSend
    \/ guiSendFail
    \/ \E m \in ServerStream : serverReadU8(m)
    \/ serverReadFail
    \/ serverLock
    \/ serverHandleMessage
    \/ serverGuiSend

SpecClient == InitClient /\ [][NextClient]_vars

\* Two connections and two games in a row with one player, on a board of
\* two cells with one initial block; bombs explode in the turn after
\* their placing; no connection breaks and no writer gets a frame through,
\* so every frame of a connection waits in its queue.
SessionsEnvironment ==
    [Environment({Join, PlaceBomb, PlaceBlock}) EXCEPT !.faults = 0, !.sends = 0, !.games = MaxGames + 1]
InitSessions == InitWith(ServerParams(1, 1, 1, 1, 2, 1, 2, 1), SessionsEnvironment)
SpecSessions == InitSessions /\ [][NextGame]_vars

\* Two players on a board of three cells in a row with one initial block,
\* blasts that reach the whole row, bombs that explode in the turn after
\* they are placed, games of two turns, for seeds that put the robots on
\* either side of the block, together beside it, or one of them on the
\* cell of the block; no connection breaks.
BlastsEnvironment ==
    [Environment({Join, PlaceBomb, PlaceBlock, Move(RIGHT)}) EXCEPT !.faults = 0, !.sends = 0]
InitBlasts ==
    \E seed \in {1, 3, 5, 6} :
        InitWith(ServerParams(1, 2, 2, 1, 2, seed, 3, 1), BlastsEnvironment)
SpecBlasts == InitBlasts /\ [][NextGame]_vars

\* The first game of one player on a board of one cell, at the moment the
\* game manager starts to sleep before the last turn (turn = game_length),
\* for a short game and for the longest game parseParams accepts.  No
\* intent was sent and the client has read nothing.  The turns before the
\* last but one, each without events, are left out of the history, the
\* queue and the record of broadcasts when the game is the longest one:
\* only the turn counter of GameManager::run depends on them.
LateRoster == 0 :> Player(Join.name, 0)
LateFrames(started) ==
    <<GameStarted(LateRoster), Turn(0, started.events)>>
        \o (IF params.game_length > 1 THEN <<Turn(params.game_length - 1, <<>>)>> ELSE <<>>)
InitLateWith(p, e) ==
    /\ params = p
    /\ env = e
    /\ LET started == initializeGame(LateRoster, GameState, randomSeed(p.seed)) IN
        /\ state = started.state
        /\ random = started.random
        /\ message_history = initializeMessageHistory \o LateFrames(started)
        /\ queue = 0 :> (initializeMessageHistory
                           \o <<AcceptedPlayer(0, LateRoster[0])>> \o LateFrames(started))
        /\ log = <<AcceptedPlayer(0, LateRoster[0])>> \o LateFrames(started)
    /\ players = LateRoster
    /\ player_ids = 0 :> 0
    /\ client_message_queues = {0}
    /\ last_messages_from_clients = EmptyMap
    /\ next_client_id = 1
    /\ is_lobby = FALSE
    /\ is_open = 0 :> TRUE
    /\ seen_open = {}
    /\ acceptor = [pc |-> "accept", client_id |-> 0]
    /\ reader = 0 :> "run"
    /\ writer = 0 :> "run"
    /\ tcp_open = 0 :> TRUE
    /\ sent = 0 :> <<>>
    /\ gm = [pc |-> "sleep", turn |-> p.game_length, players |-> LateRoster,
             events |-> <<>>, client_messages |-> EmptyMap, games |-> 0]
    /\ connect_at = 0 :> [history |-> initializeMessageHistory, index |-> 0]
    /\ client_state = ClientState(e.player_name)
    /\ client_mutex = "free"
    /\ gui_handler = [pc |-> "receive", input |-> <<>>, received |-> 0]
    /\ server_handler = [pc |-> "read", message |-> [type |-> "none"], received |-> 0]
    /\ server_output = <<>>
    /\ client_sent = <<>>
    /\ gui_output = <<>>
    /\ gui_sent = <<>>
    /\ client_log = <<>>
    /\ InitLocks
InitTurnLoop ==
    \E game_length \in {2, UINT16_MAX} :
        InitLateWith(ServerParams(1, 1, 1, 0, game_length, 1, 1, 1),
                     [Environment({Join, Move(UP)}) EXCEPT !.games = MaxGames + 1])
\* The steps of Next, the game manager taking no more turns once
\* MaxBroadcasts frames have been broadcast.
NextTurnLoop ==
    \/ acceptClient
    \/ createMessageQueue
    \/ \E c \in Clients : receiveJoin(c)
    \/ \E c \in Clients : tryAcceptPlayer(c, Join.name, c)
    \/ \E c \in Clients : \E m \in Intents : setLastMessage(c, m)
    \/ \E c \in Clients : receiverFail(c)
    \/ \E c \in Clients : eraseClient(c)
    \/ \E c \in Clients : senderSend(c)
    \/ \E c \in Clients : senderFail(c)
    \/ waitForPlayersToStartGame
    \/ initializeGameStep
    \/ (Len(log) < MaxBroadcasts /\ collectLastMessagesFromClients)
    \/ computeTurnStep
    \/ closeTurn
    \/ endGame
SpecTurnLoop == InitTurnLoop /\ [][NextTurnLoop]_vars

\* A run that starts with as many connections as the pool has threads for:
\* the acceptor holds one thread of the pool and each of the connections
\* 0 .. PoolClients - 1 holds two, its writer blocked in pop() after it sent
\* Hello and its reader blocked in a read.  Nobody has joined the lobby.
PoolClients == (MAX_THREADS - 1) \div 2
InitPoolWith(p, e) ==
    /\ params = p
    /\ env = e
    /\ players = EmptyMap
    /\ player_ids = EmptyMap
    /\ client_message_queues = 0 .. PoolClients - 1
    /\ last_messages_from_clients = EmptyMap
    /\ next_client_id = PoolClients
    /\ is_lobby = TRUE
    /\ message_history = initializeMessageHistory
    /\ queue = [c \in 0 .. PoolClients - 1 |-> <<>>]
    /\ is_open = [c \in 0 .. PoolClients - 1 |-> TRUE]
    /\ seen_open = {}
    /\ acceptor = [pc |-> "accept", client_id |-> PoolClients - 1]
    /\ reader = [c \in 0 .. PoolClients - 1 |-> "run"]
    /\ writer = [c \in 0 .. PoolClients - 1 |-> "run"]
    /\ tcp_open = [c \in 0 .. PoolClients - 1 |-> TRUE]
    /\ sent = [c \in 0 .. PoolClients - 1 |-> initializeMessageHistory]
    /\ gm = [pc |-> "wait", turn |-> 0, players |-> EmptyMap, events |-> <<>>,
             client_messages |-> EmptyMap, games |-> 0]
    /\ state = GameState
    /\ random = randomSeed(p.seed)
    /\ log = <<>>
    /\ connect_at = [c \in 0 .. PoolClients - 1 |->
                        [history |-> initializeMessageHistory, index |-> 0]]
    /\ client_state = ClientState(e.player_name)
    /\ client_mutex = "free"
    /\ gui_handler = [pc |-> "receive", input |-> <<>>, received |-> 0]
    /\ server_handler = [pc |-> "read", message |-> [type |-> "none"], received |-> 0]
    /\ server_output = <<>>
    /\ client_sent = <<>>
    /\ gui_output = <<>>
    /\ gui_sent = <<>>
    /\ client_log = <<>>
    /\ InitLocks
\* One more client connects and sends Join; every peer has read the Hello
\* it was sent and the new one can read its Hello too; one connection can
\* break.  One player, one game of one turn.
InitPool ==
    InitPoolWith(ServerParams(1, 1, 1, 0, 1, 1, 1, 1),
                 [Environment({Join}) EXCEPT !.clients = PoolClients + 1,
                                             !.sends = PoolClients + 1])
\* The connection accepted last.
Newest == PoolClients
NextPool ==
    \/ acceptClient
    \/ createMessageQueue
    \/ startPosted
    \/ \E c \in Clients : c = Newest /\ receiveJoin(c)
    \/ \E c \in Clients : tryAcceptPlayer(c, Join.name, c)
    \/ \E c \in Clients : receiverFail(c)
    \/ \E c \in Clients : eraseClient(c)
    \/ \E c \in Clients : senderSend(c)
    \/ \E c \in Clients : senderFail(c)
    \/ waitForPlayersToStartGame
    \/ initializeGameStep
    \/ collectLastMessagesFromClients
    \/ computeTurnStep
    \/ closeTurn
    \/ endGame
SpecPool == InitPool /\ [][NextPool]_vars

\* The threads at the grain of their mutexes: one player, one game of one
\* turn.  Either two clients connect, send Join and stay connected, or one
\* client connects, sends Join and Move, and its connection can break.
InitLocksRun ==
    \E e \in {[Environment({Join}) EXCEPT !.faults = 0],
               [Environment({Join, Move(UP)}) EXCEPT !.clients = 1]} :
        InitWith(ServerParams(1, 1, 1, 0, 1, 1, 1, 1), e)
SpecLocks == InitLocksRun /\ [][NextLocks]_vars
\* The threads of the server are scheduled fairly: the acceptor creates the
\* queue of a connection it accepted and posts its tasks, an idle thread of
\* the pool takes a posted task, a reader handles the Join it read and
\* erases the client whose connection failed, a writer sends the frame at
\* the front of its queue and leaves by the exception when its queue is
\* closed or its socket shut down, and the game manager takes its steps.
\* The peers are under no obligation to connect, to send or to disconnect.
FairPool ==
    /\ InitPool
    /\ [][NextPool]_vars
    /\ WF_vars(createMessageQueue)
    /\ WF_vars(startPosted)
    /\ WF_vars(\E c \in Clients : tryAcceptPlayer(c, Join.name, c))
    /\ WF_vars(\E c \in Clients : eraseClient(c))
    /\ WF_vars(\E c \in Clients : senderSend(c))
    /\ WF_vars(\E c \in Clients : ~(is_open[c] /\ tcp_open[c]) /\ senderFail(c))
    /\ WF_vars(waitForPlayersToStartGame \/ initializeGameStep
                  \/ collectLastMessagesFromClients \/ computeTurnStep
                  \/ closeTurn \/ endGame)

\* The threads of the server are scheduled fairly: the acceptor creates the
\* queue of a connection it accepted, a reader handles the Join it read and
\* erases the client whose connection failed, and the game manager wakes up
\* once the predicate of its wait holds and keeps holding.  The peers are
\* under no obligation.
FairSpec ==
    /\ Init
    /\ [][Next]_vars
    /\ WF_vars(createMessageQueue)
    /\ \A c \in 0 .. MaxClients - 1 :
          /\ WF_vars(c \in Clients /\ tryAcceptPlayer(c, Join.name, c))
          /\ WF_vars(c \in Clients /\ eraseClient(c))
    /\ WF_vars(waitForPlayersToStartGame)

\* The two threads of a connection are scheduled fairly once the connection
\* is going down: a reader whose socket is shut down gets the failure from
\* its next read (after the finitely many frames it had buffered, hence
\* strong fairness), the reader that took the catch block calls
\* eraseClient, a reader that has read a Join handles it, and a writer whose
\* queue is closed or whose socket is shut down leaves pop() or send() by
\* the exception.  The peers and the game manager are under no obligation.
FairHandlers ==
    /\ Init
    /\ [][Next]_vars
    /\ \A c \in 0 .. MaxClients - 1 :
          /\ SF_vars(c \in Clients /\ ~tcp_open[c] /\ receiverFail(c))
          /\ WF_vars(c \in Clients /\ tryAcceptPlayer(c, Join.name, c))
          /\ WF_vars(c \in Clients /\ eraseClient(c))
          /\ WF_vars(c \in Clients /\ ~(is_open[c] /\ tcp_open[c]) /\ senderFail(c))

(***************************************************************************)
(* Reading the record of broadcasts.                                       *)
(***************************************************************************)
\* The greatest i <= idx with log[i].type in types, 0 when there is none.
LastIndex(idx, types) ==
    LET S == {i \in 1 .. idx : log[i].type \in types}
    IN IF S = {} THEN 0 ELSE Max(S)
\* A game was in progress after the first idx broadcasts.
InGameAt(idx) ==
    LET i == LastIndex(idx, {"GameStarted", "GameEnded"})
    IN i > 0 /\ log[i].type = "GameStarted"
\* The first broadcast of the session the idx-th broadcast belongs to.
SessionStart(idx) == LastIndex(idx, {"GameEnded"}) + 1
\* The first broadcast of the lobby (the stretch between a GameEnded and the
\* next GameStarted) the idx-th broadcast belongs to.
LobbyStart(idx) == LastIndex(idx, {"GameStarted", "GameEnded"}) + 1
\* The clients whose queue is in the server's table and open.
LiveClients == {c \in client_message_queues : is_open[c]}
\* Every frame that was placed in the queue of client c.
Placed(c) == sent[c] \o queue[c]
IsPrefix(s, t) == Len(s) <= Len(t) /\ SubSeq(t, 1, Len(s)) = s

(***************************************************************************)
(* C1.  Whatever the interleaving of a client's connect with the           *)
(* broadcasts of the game manager and of the readers, the frames placed in *)
(* the client's queue while it is open are the replay history as it stood  *)
(* at the connect followed by every frame broadcast since, in broadcast    *)
(* order, none missing and none twice.                                     *)
(***************************************************************************)
C1_ReplayThenLive ==
    \A c \in LiveClients :
        Placed(c) = connect_at[c].history
                        \o SubSeq(log, connect_at[c].index + 1, Len(log))

\* A client connected in the middle of a game and frames were broadcast
\* before and after its connect.
C1_Witness ==
    \E c \in LiveClients :
        /\ InGameAt(connect_at[c].index)
        /\ Len(connect_at[c].history) >= 3
        /\ Len(log) >= connect_at[c].index + 2

C4_SequentialPlayerIds ==
    \A i \in 1 .. Len(log) :
        log[i].type = "AcceptedPlayer" =>
            log[i].id = Cardinality({j \in LobbyStart(i) .. i - 1 :
                                        log[j].type = "AcceptedPlayer"})

\* The clients that were admitted on their Join and are still connected.
JoinedAndConnected == {c \in DOMAIN player_ids : reader[c] \in {"run", "join"}}
\* The lobby holds players_count such clients (and the run may start a game).
EnoughJoined ==
    /\ is_lobby
    /\ gm.games < env.games
    /\ Cardinality(JoinedAndConnected) >= params.players_count

(***************************************************************************)
(* C5.  As claimed: when the server is in lobby phase and players_count    *)
(* connected clients have joined and stay connected, GameStarted is        *)
(* eventually broadcast.                                                   *)
(***************************************************************************)
C5_GameEventuallyStarts == EnoughJoined ~> (~is_lobby \/ ~EnoughJoined)

(***************************************************************************)
(* C6.  As claimed: when a client that was never admitted disconnects      *)
(* during the lobby, eraseClient leaves the players table and the          *)
(* client-to-player mapping as they were.                                  *)
(***************************************************************************)
C6_EraseKeepsRoster ==
    [][\A c \in DOMAIN reader :
          (/\ reader[c] = "erase"
           /\ reader'[c] = "done"
           /\ is_lobby
           /\ c \notin DOMAIN player_ids)
          => (players' = players /\ player_ids' = player_ids)]_vars

\* Client c is the player p of the current game.
PlaysAs(c, p) == p \in DOMAIN gm.players /\ gm.players[p].address = c

(***************************************************************************)
(* C7.  As claimed: only the intents of admitted players are interpreted,  *)
(* each under that client's own PlayerId: every entry of the snapshot      *)
(* taken by collectLastMessagesFromClients is the intent recorded by the   *)
(* client that plays that PlayerId in the current game.                    *)
(***************************************************************************)
C7_OnlyAdmittedIntents ==
    [][(gm.pc = "sleep" /\ gm'.pc = "compute") =>
          \A p \in DOMAIN gm'.client_messages :
              \E c \in DOMAIN last_messages_from_clients :
                  /\ PlaysAs(c, p)
                  /\ gm'.client_messages[p] = last_messages_from_clients[c]]_vars

(***************************************************************************)
(* C8.  As claimed: for every admitted client, the snapshot of a turn      *)
(* holds, under its PlayerId, the last intent the client recorded before   *)
(* collectLastMessagesFromClients ran (and the table is cleared with it).  *)
(***************************************************************************)
C8_LastIntentInterpreted ==
    [][(gm.pc = "sleep" /\ gm'.pc = "compute") =>
          /\ last_messages_from_clients' = EmptyMap
          /\ \A c \in DOMAIN last_messages_from_clients :
                \A p \in DOMAIN gm.players :
                    PlaysAs(c, p) =>
                        /\ p \in DOMAIN gm'.client_messages
                        /\ gm'.client_messages[p] = last_messages_from_clients[c]]_vars

\* No AcceptedPlayer is broadcast between a GameStarted and the following
\* GameEnded, no client is announced twice in one lobby, every admission in
\* the tables of a lobby was announced in that lobby, and the players table
\* of a game is the one the game started with.
C9_NoAcceptInGame ==
    /\ \A i \in 1 .. Len(log) :
          log[i].type = "AcceptedPlayer" =>
              /\ ~InGameAt(i - 1)
              /\ \A j \in LobbyStart(i) .. i - 1 :
                    log[j].type = "AcceptedPlayer" =>
                        log[j].player.address # log[i].player.address
    /\ is_lobby =>
          \A c \in DOMAIN player_ids :
              \E i \in LobbyStart(Len(log)) .. Len(log) :
                  /\ log[i].type = "AcceptedPlayer"
                  /\ log[i].player.address = c
                  /\ log[i].id = player_ids[c]
    /\ ~is_lobby =>
          \A p \in DOMAIN players :
              p \in DOMAIN gm.players /\ players[p] = gm.players[p]
\* The step that handles a Join read in the middle of a game, or read from a
\* client that is admitted already, changes no server table and no queue and
\* broadcasts nothing.
C9_IgnoredJoinStep ==
    \A c \in DOMAIN reader :
        (/\ reader[c] = "join"
         /\ reader'[c] = "run"
         /\ ~is_lobby \/ c \in DOMAIN player_ids)
        => UNCHANGED <<server_vars, queue_vars, log>>

RECURSIVE SumOver(_, _)
SumOver(f, S) ==
    IF S = {} THEN 0
    ELSE LET k == CHOOSE x \in S : TRUE IN f[k] + SumOver(f, S \ {k})
Explosions(events) == {k \in 1 .. Len(events) : events[k].type = "BombExploded"}
\* The number of PlayerId entries in the robots_destroyed lists of a turn.
RobotsListed(events) ==
    SumOver([k \in Explosions(events) |-> Len(events[k].robots_destroyed)],
            Explosions(events))
\* The number of players listed by at least one BombExploded of a turn.
RobotsDestroyed(events) ==
    Cardinality(UNION {Range(events[k].robots_destroyed) : k \in Explosions(events)})
\* The event lists of the turns of the current game that the game state
\* reflects: the Turn frames of the history and the turn about to be closed.
TurnsOfGame ==
    LET closed == SelectSeq(message_history, LAMBDA m : m.type = "Turn")
    IN [k \in 1 .. Len(closed) |-> closed[k].events]
           \o (IF gm.pc = "close" THEN <<gm.events>> ELSE <<>>)
TotalScore(scores) == SumOver(scores, DOMAIN scores)
\* The event lists of the Turn frames of the game that the i-th broadcast,
\* a GameEnded, ends.
TurnsBefore(i) ==
    LET g == LastIndex(i, {"GameStarted"})
    IN [k \in 1 .. i - 1 - g |-> log[g + k].events]

(***************************************************************************)
(* C10.  As claimed: over one game the sum of the players' scores equals   *)
(* the number of PlayerId entries in the robots_destroyed lists of all the *)
(* BombExploded events of the game.                                        *)
(***************************************************************************)
C10_ScoresCountEntries ==
    /\ gm.pc \notin {"wait", "init"} =>
          TotalScore(state.scores) =
              SumOver([k \in DOMAIN TurnsOfGame |-> RobotsListed(TurnsOfGame[k])],
                      DOMAIN TurnsOfGame)
    /\ \A i \in 1 .. Len(log) :
          log[i].type = "GameEnded" =>
              TotalScore(log[i].scores) =
                  SumOver([k \in DOMAIN TurnsBefore(i) |-> RobotsListed(TurnsBefore(i)[k])],
                          DOMAIN TurnsBefore(i))

(***************************************************************************)
(* C10, amended.  Over one game the sum of the players' scores equals the  *)
(* number of pairs (turn, PlayerId) such that the PlayerId is in the       *)
(* robots_destroyed list of at least one BombExploded event of that turn:  *)
(* a robot caught by several bombs of one turn scores once.                *)
(***************************************************************************)
C10_ScoresCountRobotsPerTurn ==
    /\ gm.pc \notin {"wait", "init"} =>
          TotalScore(state.scores) =
              SumOver([k \in DOMAIN TurnsOfGame |-> RobotsDestroyed(TurnsOfGame[k])],
                      DOMAIN TurnsOfGame)
    /\ \A i \in 1 .. Len(log) :
          log[i].type = "GameEnded" =>
              TotalScore(log[i].scores) =
                  SumOver([k \in DOMAIN TurnsBefore(i) |-> RobotsDestroyed(TurnsBefore(i)[k])],
                          DOMAIN TurnsBefore(i))

\* A game has ended in which two bombs exploded in one turn and both listed
\* the same robot.
C10_Witness ==
    \E i \in 1 .. Len(log) :
        /\ log[i].type = "GameEnded"
        /\ \E k \in DOMAIN TurnsBefore(i) :
              RobotsListed(TurnsBefore(i)[k]) > RobotsDestroyed(TurnsBefore(i)[k])
        /\ TotalScore(log[i].scores) >= 2

\* The players of the game that the i-th broadcast belongs to, as its
\* GameStarted announced them.
PlayersOfGame(i) == log[LastIndex(i, {"GameStarted"})].players

(***************************************************************************)
(* C11.  As claimed: after the initialization of turn 0 the score table    *)
(* holds an entry with value 0 for every player of the game, and the       *)
(* scores of GameEnded have one entry per player.                          *)
(***************************************************************************)
C11_ScoreEntryPerPlayer ==
    /\ (gm.pc = "close" /\ gm.turn = 0) =>
          state.scores = [p \in DOMAIN gm.players |-> 0]
    /\ \A i \in 1 .. Len(log) :
          log[i].type = "GameEnded" =>
              DOMAIN log[i].scores = DOMAIN PlayersOfGame(i)

(***************************************************************************)
(* The explosion of a bomb against the cross it is specified to be.        *)
(***************************************************************************)
\* The cells of the board.
Board == {Position(x, y) : x \in 0 .. params.size_x - 1, y \in 0 .. params.size_y - 1}
\* The four directions of a cross.
CrossDirections == {<<0, 1>>, <<1, 0>>, <<0, -1>>, <<-1, 0>>}
\* The cell at distance d from bomb_pos in direction dir (on the board or not).
CellAt(bomb_pos, dir, d) == [x |-> bomb_pos.x + dir[1] * d, y |-> bomb_pos.y + dir[2] * d]
\* The reference cross: per direction the cells of the board at distance
\* 0 .. explosion_radius that no block at a smaller distance hides.  (No
\* cell at a distance of size_x + size_y or more is on the board.)
ReferenceCross(bomb_pos, blocks) ==
    {pos \in Board :
        \E dir \in CrossDirections :
            \E d \in 0 .. Min({params.explosion_radius, params.size_x + params.size_y}) :
                /\ pos = CellAt(bomb_pos, dir, d)
                /\ \A e \in 0 .. d - 1 : CellAt(bomb_pos, dir, e) \notin blocks}

(***************************************************************************)
(* C17.  As claimed: for every bomb position, block set, board size and    *)
(* explosion_radius, calcExplosion returns, and returns the reference      *)
(* cross; the bomb's cell is in it, it is that single cell when the bomb's *)
(* cell holds a block, the destroyed robots are the players standing in it *)
(* and the destroyed blocks are the blocks in it.                          *)
(***************************************************************************)
C17_ExplosionIsReferenceCross ==
    gm.pc = "compute" =>
        \A bomb_pos \in Board : \A blocks \in SUBSET Board :
            LET st == [state EXCEPT !.blocks = blocks]
                cross == ReferenceCross(bomb_pos, blocks)
                affected == calcExplosion(bomb_pos, st)
            IN /\ calcExplosionReturns(bomb_pos, st)
               /\ affected = cross
               /\ bomb_pos \in affected
               /\ bomb_pos \in blocks => affected = {bomb_pos}
               /\ calcDestroyedRobots(affected, st) =
                      {p \in DOMAIN st.player_pos : st.player_pos[p] \in cross}
               /\ calcDestroyedBlocks(affected, st) = blocks \cap cross

(***************************************************************************)
(* Reading the events of the Turn frames broadcast so far.  An event is    *)
(* referred to by <<i, k>>: the k-th event of the i-th broadcast.          *)
(***************************************************************************)
EventRefs ==
    UNION {{<<i, k>> : k \in 1 .. Len(log[i].events)} :
              i \in {j \in 1 .. Len(log) : log[j].type = "Turn"}}
EventAt(e) == log[e[1]].events[e[2]]
\* The turn number of the Turn frame that carries the event.
TurnOf(e) == log[e[1]].turn
\* Two events belong to the same game.
SameGame(e, f) == LastIndex(e[1], {"GameStarted"}) = LastIndex(f[1], {"GameStarted"})
BombPlacedRefs == {e \in EventRefs : EventAt(e).type = "BombPlaced"}
BombExplodedRefs == {e \in EventRefs : EventAt(e).type = "BombExploded"}
\* The BombExploded events of the game of BombPlaced event e with its BombId.
ExplosionsOf(e) ==
    {f \in BombExplodedRefs : SameGame(e, f) /\ EventAt(f).id = EventAt(e).id}

(***************************************************************************)
(* C12.  Every BombExploded event carries a BombId that a BombPlaced event *)
(* of an earlier turn of the same game announced, and no BombId is carried *)
(* by two BombExploded events of one game.                                 *)
(***************************************************************************)
C12_ExplodedWasPlaced ==
    \A f \in BombExplodedRefs :
        /\ \E e \in BombPlacedRefs :
              /\ SameGame(e, f)
              /\ EventAt(e).id = EventAt(f).id
              /\ e[1] < f[1]
        /\ \A g \in BombExplodedRefs :
              (SameGame(f, g) /\ EventAt(g).id = EventAt(f).id) => g = f

\* Two bombs of one game have exploded, in different turns.
C12_Witness ==
    \E f, g \in BombExplodedRefs :
        SameGame(f, g) /\ f[1] < g[1] /\ EventAt(f).id # EventAt(g).id

\* The game of event e has ended.
GameOver(e) == \E i \in e[1] + 1 .. Len(log) : log[i].type = "GameEnded"
\* The bombs on the board are those placed and not exploded, and the step
\* that computes a turn makes the timer of every bomb that stays on the
\* board strictly smaller.
BombsOnBoard ==
    gm.pc \in {"sleep", "compute", "end"} =>
        DOMAIN state.bombs =
            {EventAt(e).id : e \in {b \in BombPlacedRefs :
                                      /\ b[1] > LastIndex(Len(log), {"GameStarted"})
                                      /\ ExplosionsOf(b) = {}}}
TimersDecrease ==
    (gm.pc = "compute" /\ gm'.pc = "close") =>
        \A id \in DOMAIN state.bombs \cap DOMAIN state'.bombs :
            /\ state'.bombs[id].timer < state.bombs[id].timer
            /\ state'.bombs[id].timer >= 1

(***************************************************************************)
(* C13.  As claimed: every BombPlaced event of a game is followed, in that *)
(* game, by exactly one BombExploded event with the same BombId.           *)
(***************************************************************************)
C13_EveryBombExplodes ==
    \A e \in BombPlacedRefs :
        GameOver(e) =>
            /\ Cardinality(ExplosionsOf(e)) = 1
            /\ \A f \in ExplosionsOf(e) : e[1] < f[1]

\* A bomb explodes at most once, after its placing, and in a game that has
\* ended it has exploded exactly when the game lasted long enough.
C13_ExplodesInGameOrNot ==
    \A e \in BombPlacedRefs :
        /\ Cardinality(ExplosionsOf(e)) <= 1
        /\ \A f \in ExplosionsOf(e) : e[1] < f[1]
        /\ GameOver(e) =>
              (ExplosionsOf(e) # {} <=>
                  TurnOf(e) + params.bomb_timer <= params.game_length)

(***************************************************************************)
(* C13, amended.  Every BombPlaced event of a game is followed, in that    *)
(* game, by at most one BombExploded event with the same BombId: by        *)
(* exactly one when the bomb is placed in a turn t with                    *)
(* t + bomb_timer <= game_length, and by none when the game ends first.    *)
(* While the bomb is on the board its timer is strictly smaller after      *)
(* every turn than after the turn before.                                  *)
(***************************************************************************)
C13_ExplodesUnlessGameEnds ==
    /\ [](C13_ExplodesInGameOrNot /\ BombsOnBoard)
    /\ [][TimersDecrease]_vars

\* A game has ended in which one bomb exploded and another, placed later,
\* did not; and a bomb was on the board for more than one turn.
C13_Witness ==
    /\ \E e, f \in BombPlacedRefs :
          /\ SameGame(e, f) /\ GameOver(e)
          /\ ExplosionsOf(e) # {} /\ ExplosionsOf(f) = {}
          /\ \E g \in ExplosionsOf(e) : g[1] > e[1] + 2

\* The last Turn frame broadcast so far in the game of event e.
LastTurnOfGame(e) ==
    Max({log[i].turn : i \in {j \in e[1] .. Len(log) :
                                /\ log[j].type = "Turn"
                                /\ LastIndex(j, {"GameStarted"}) = LastIndex(e[1], {"GameStarted"})}})

(***************************************************************************)
(* C14.  A bomb placed in turn t explodes in turn t + bomb_timer exactly:  *)
(* its BombExploded is in the event list of that Turn and of no other,     *)
(* whenever the game has a turn t + bomb_timer, for bomb_timer = 1 too.    *)
(***************************************************************************)
C14_ExplodesAfterBombTimer ==
    \A e \in BombPlacedRefs :
        /\ \A f \in ExplosionsOf(e) : TurnOf(f) = TurnOf(e) + params.bomb_timer
        /\ TurnOf(e) + params.bomb_timer <= LastTurnOfGame(e) => ExplosionsOf(e) # {}

\* With bomb_timer = 1, a bomb placed after the first turn has exploded.
C14_Witness ==
    /\ params.bomb_timer = 1
    /\ \E e \in BombPlacedRefs : TurnOf(e) > 1 /\ ExplosionsOf(e) # {}

\* The position is a cell of the board.
OnBoard(pos) ==
    /\ 0 <= pos.x /\ pos.x < params.size_x
    /\ 0 <= pos.y /\ pos.y < params.size_y
\* The positions an event carries.
PositionsOf(event) ==
    IF event.type = "BombExploded" THEN Range(event.blocks_destroyed)
    ELSE {event.position}
\* Every event list built or broadcast so far.
EventLists ==
    {gm.events} \cup {log[i].events : i \in {j \in 1 .. Len(log) : log[j].type = "Turn"}}

(***************************************************************************)
(* C15.  In every reachable state every position stored in the game state  *)
(* (robots, blocks, bombs) or carried by an event (PlayerMoved,            *)
(* BlockPlaced, BombPlaced, BombExploded.blocks_destroyed) satisfies       *)
(* x < size_x and y < size_y.                                              *)
(***************************************************************************)
C15_PositionsOnBoard ==
    /\ \A p \in DOMAIN state.player_pos : OnBoard(state.player_pos[p])
    /\ \A pos \in state.blocks : OnBoard(pos)
    /\ \A id \in DOMAIN state.bombs : OnBoard(state.bombs[id].position)
    /\ \A events \in EventLists :
          \A k \in 1 .. Len(events) :
              \A pos \in PositionsOf(events[k]) : OnBoard(pos)

\* The robot stands on the last cell of the board at the close of a turn
\* without events, and an explosion has destroyed a block.
C15_Witness ==
    /\ gm.pc = "close" /\ gm.turn > 1 /\ gm.events = <<>>
    /\ \E p \in DOMAIN state.player_pos :
          state.player_pos[p] = Position(params.size_x - 1, params.size_y - 1)
    /\ \E e \in BombExplodedRefs : EventAt(e).blocks_destroyed # <<>>

\* The cell a Move in direction d aims at from pos: Up = y + 1,
\* Right = x + 1, Down = y - 1, Left = x - 1.
TargetOf(pos, d) ==
    [x |-> pos.x + (IF d = RIGHT THEN 1 ELSE IF d = LEFT THEN -1 ELSE 0),
     y |-> pos.y + (IF d = UP THEN 1 ELSE IF d = DOWN THEN -1 ELSE 0)]
\* The PlayerMoved events for player p in an event list.
MovesOf(p, events) ==
    {k \in 1 .. Len(events) : events[k].type = "PlayerMoved" /\ events[k].id = p}
\* The players and blocks listed by the BombExploded events of an event list.
RobotsIn(events) == UNION {Range(events[k].robots_destroyed) : k \in Explosions(events)}
BlocksIn(events) == UNION {Range(events[k].blocks_destroyed) : k \in Explosions(events)}

(***************************************************************************)
(* C18.  A Move intent of a player that survives the explosions of the     *)
(* turn emits PlayerMoved and updates the position if and only if the      *)
(* target cell (Up = y + 1, Right = x + 1, Down = y - 1, Left = x - 1) is  *)
(* on the board and holds no block when the intent is interpreted;         *)
(* otherwise no event is emitted and the position is unchanged.            *)
(***************************************************************************)
C18_MoveIffFree ==
    [][(gm.pc = "compute" /\ gm'.pc = "close") =>
          \A p \in DOMAIN gm.client_messages :
              (/\ gm.client_messages[p].type = "Move"
               /\ p \in DOMAIN state.player_pos
               /\ p \notin RobotsIn(gm'.events))
              => LET pos == state.player_pos[p]
                     target == TargetOf(pos, gm.client_messages[p].direction)
                 IN IF OnBoard(target) /\ target \notin state.blocks \ BlocksIn(gm'.events)
                    THEN /\ state'.player_pos[p] = target
                         /\ \E k \in MovesOf(p, gm'.events) :
                               /\ MovesOf(p, gm'.events) = {k}
                               /\ gm'.events[k].position = target
                    ELSE /\ state'.player_pos[p] = pos
                         /\ MovesOf(p, gm'.events) = {}]_vars

\* A turn closes in which no bomb exploded and the robot moved to a cell in
\* the top row of the board, next to a block.
C18_Witness ==
    /\ gm.pc = "close" /\ gm.turn >= 1
    /\ Len(gm.events) = 1
    /\ gm.events[1].type = "PlayerMoved"
    /\ gm.events[1].position.y = params.size_y - 1
    /\ state.blocks # {}

\* The players of the game that have no position in game state st.
Absent(st) == DOMAIN gm.players \ DOMAIN st.player_pos
\* The three steps of the turn that is about to be computed.
AfterUpdateBombs == updateBombs([state |-> state, events |-> <<>>, random |-> random])
AfterIntents == interpretAllClientMessages(gm.client_messages, AfterUpdateBombs)
AfterRespawn == placeMissingRobots(gm.players, AfterIntents)

(***************************************************************************)
(* C16.  Inside a turn a player is absent from player_pos exactly when the *)
(* player's robot was destroyed by the explosions of that turn and is not  *)
(* yet respawned; when a Turn frame is broadcast every player of the game  *)
(* has a position, the players whose client has disconnected too.          *)
(***************************************************************************)
C16_AbsentIffDestroyed ==
    /\ gm.pc \in {"close", "sleep", "compute", "end"} => Absent(state) = {}
    /\ (gm.pc = "compute" /\ updateBombsReturns(state)) =>
          /\ Absent(AfterUpdateBombs.state) = RobotsIn(AfterUpdateBombs.events)
          /\ Absent(AfterIntents.state) = RobotsIn(AfterUpdateBombs.events)
          /\ Absent(AfterRespawn.state) = {}
          /\ \A p \in DOMAIN gm.players :
                (\E k \in MovesOf(p, AfterRespawn.events) : k > Len(AfterIntents.events))
                    <=> p \in RobotsIn(AfterUpdateBombs.events)

\* A Turn frame is about to be broadcast in whose turn the robot of a
\* player whose client has disconnected was destroyed and respawned.
C16_Witness ==
    /\ gm.pc = "close"
    /\ \E p \in RobotsIn(gm.events) :
          /\ reader[gm.players[p].address] = "done"
          /\ MovesOf(p, gm.events) # {}
          /\ p \in DOMAIN state.player_pos

(***************************************************************************)
(* The Turn payloads of a first game without intents, as a function of the *)
(* server parameters alone.                                                *)
(***************************************************************************)
\* The k-th number std::minstd_rand draws when seeded with the seed of the
\* parameters (the 0-th being the seeded state).
RECURSIVE DrawAt(_)
DrawAt(k) ==
    IF k = 0
    THEN (IF params.seed % LCG_M = 0 THEN 1 ELSE params.seed % LCG_M)
    ELSE randomNext(DrawAt(k - 1))
\* The position made of the draws 2n + 1 (x) and 2n + 2 (y).
DrawnPosition(n) == [x |-> DrawAt(2 * n + 1) % params.size_x, y |-> DrawAt(2 * n + 2) % params.size_y]
\* Turn 0: the robots of the players 0 .. players_count - 1, then the blocks.
QuietTurn0 ==
    [k \in 1 .. params.players_count + params.initial_blocks |->
        IF k <= params.players_count
        THEN [type |-> "PlayerMoved", id |-> k - 1, position |-> DrawnPosition(k - 1)]
        ELSE [type |-> "BlockPlaced", position |-> DrawnPosition(k - 1)]]

(***************************************************************************)
(* C19.  For fixed server parameters and seed and with no client intents,  *)
(* every run produces the same Turn payloads for its first game: Turn 0    *)
(* holds the robots and blocks drawn from the seed, in the order of the    *)
(* draws, and every later Turn holds no event.                             *)
(***************************************************************************)
C19_FirstGameDeterministic ==
    \A i \in 1 .. Len(log) :
        (log[i].type = "Turn" /\ LastIndex(i, {"GameEnded"}) = 0) =>
            log[i].events = IF log[i].turn = 0 THEN QuietTurn0 ELSE <<>>

\* With a seed other than 1, the first game has ended after a connection
\* broke.
C19_Witness ==
    /\ params.seed # 1
    /\ \E i \in 1 .. Len(log) : log[i].type = "GameEnded"
    /\ \E c \in DOMAIN tcp_open : ~tcp_open[c]

(***************************************************************************)
(* C20: the client's Join and intents against its is_lobby flag.           *)
(***************************************************************************)
\* The Join frame of the client: the type byte, then player_name as a
\* length byte and the bytes.
JoinFrame == <<CLIENT_JOIN, Len(env.player_name)>> \o env.player_name
\* The PlaceBomb, PlaceBlock and Move frames.
IntentFrames ==
    {<<CLIENT_PLACE_BOMB>>, <<CLIENT_PLACE_BLOCK>>} \cup
    {<<CLIENT_MOVE, d>> : d \in 0 .. DIRECTION_MAX}
\* A datagram of the GUI is well formed.
WellFormed(input) ==
    \/ isGuiPlaceBomb(input)
    \/ isGuiPlaceBlock(input)
    \/ isGuiMove(input) /\ input[2] <= DIRECTION_MAX
\* A GameStarted has been applied and no GameEnded since.
GameApplied ==
    LET idx == {k \in 1 .. Len(client_log) : client_log[k] \in {"GameStarted", "GameEnded"}}
    IN idx # {} /\ client_log[Max(idx)] = "GameStarted"
\* The GUI handler returns from server.send().
GuiSendReturns == gui_handler.pc = "send" /\ gui_handler'.pc = "receive"

\* A step that writes to the TCP socket writes one frame, a Join only if
\* is_lobby is true and no game is applied, an intent only if is_lobby is
\* false and a game is applied.
SendsByPhase ==
    (client_sent' # client_sent) =>
        /\ Len(client_sent') = Len(client_sent) + 1
        /\ SubSeq(client_sent', 1, Len(client_sent)) = client_sent
        /\ LET frame == client_sent'[Len(client_sent')]
           IN IF frame = JoinFrame
              THEN client_state.is_lobby /\ ~GameApplied
              ELSE /\ frame \in IntentFrames
                   /\ ~client_state.is_lobby /\ GameApplied
\* When the GUI handler is through with a well-formed datagram in lobby,
\* exactly one Join has been written for it.
JoinsInLobby ==
    (GuiSendReturns /\ WellFormed(gui_handler.input) /\ client_state.is_lobby)
        => (client_sent' = Append(client_sent, JoinFrame))

\* C20: the client sends the Join carrying player_name only while is_lobby
\* is true (no GameStarted applied since the last GameEnded) and sends
\* PlaceBomb, PlaceBlock and Move only while it is false, and in lobby each
\* well-formed datagram of the GUI becomes exactly one Join.
C20_JoinOnlyInLobby == [][SendsByPhase /\ JoinsInLobby]_vars

\* C20 witness: the client sent its Join in lobby, GameStarted was applied,
\* the GUI handler is about to send a PlaceBomb under the lock, and the
\* server handler waits for the lock with the GameEnded it has read.
C20_Witness ==
    /\ client_sent = <<JoinFrame>>
    /\ ~client_state.is_lobby
    /\ gui_handler.pc = "send"
    /\ server_output = <<CLIENT_PLACE_BOMB>>
    /\ client_mutex = "gui"
    /\ server_handler.pc = "lock"
    /\ server_handler.message.type = "GameEnded"

(***************************************************************************)
(* C21: one datagram of the GUI, at most one frame; a malformed datagram,  *)
(* nothing.                                                                *)
(***************************************************************************)
\* The GUI handler is at work on the datagram gui_handler.input.
GuiHandling == gui_handler.pc \in {"lock", "handle", "send"}
\* The datagrams the GUI handler is through with.
GuiHandled == gui_handler.received - (IF GuiHandling THEN 1 ELSE 0)
\* A step writes at most one frame to the TCP socket, and only as the last
\* step of the handling of a well-formed datagram; the handling of a
\* malformed datagram writes nothing, and no step taken while the GUI
\* handler holds the lock changes ClientState.
OneFramePerDatagram ==
    /\ (client_sent' # client_sent) =>
          /\ Len(client_sent') = Len(client_sent) + 1
          /\ SubSeq(client_sent', 1, Len(client_sent)) = client_sent
          /\ GuiSendReturns
          /\ WellFormed(gui_handler.input)
    /\ (GuiHandling /\ ~WellFormed(gui_handler.input)) =>
          /\ client_sent' = client_sent
          /\ server_output' = <<>> \/ gui_handler.pc = "lock"
    /\ (gui_handler' # gui_handler \/ client_mutex = "gui") =>
          client_state' = client_state

\* C21: the client has never sent more frames than the GUI datagrams it is
\* through with, each datagram gives at most one frame, and a malformed
\* datagram (wrong size for its type, unknown type, Move with a direction
\* past 3) gives none and leaves ClientState as it was, in lobby and in game.
C21_AtMostOneFrame ==
    [](Len(client_sent) <= GuiHandled) /\ [][OneFramePerDatagram]_vars

\* C21 witness: in game, after a frame was sent for an earlier datagram,
\* the GUI handler has dispatched a Move with direction 4 and is at
\* server.send() with an empty buffer.
C21_Witness ==
    /\ ~client_state.is_lobby
    /\ client_sent # <<>>
    /\ gui_handler.pc = "send"
    /\ gui_handler.input = <<GUI_MOVE, DIRECTION_MAX + 1>>
    /\ server_output = <<>>

(***************************************************************************)
(* C22: the bombs map of the client.                                       *)
(***************************************************************************)
\* The prefixes of the frame stream of connection c.
Prefixes(c) == {SubSeq(StreamTo(c), 1, n) : n \in 0 .. Len(StreamTo(c))}
\* The index of the last frame of stream with a type of types, 0 if none.
LastFrameOf(stream, types) ==
    LET idx == {k \in 1 .. Len(stream) : stream[k].type \in types}
    IN IF idx = {} THEN 0 ELSE Max(idx)
\* The events of the Turn frames of stream after frame number from, as
\* pairs <<frame, index in the frame>> in the order of their application.
EventsAfter(stream, from) ==
    {<<k, j>> \in (from + 1 .. Len(stream)) \X (1 .. 8) :
        stream[k].type = "Turn" /\ j <= Len(stream[k].events)}
EventIn(stream, ref) == stream[ref[1]].events[ref[2]]
Before(r1, r2) == r1[1] < r2[1] \/ (r1[1] = r2[1] /\ r1[2] < r2[2])
\* The BombIds with a BombPlaced after frame number from and no
\* BombExploded after that BombPlaced.
PlacedNotExploded(stream, from) ==
    {EventIn(stream, r).id : r \in
        {r \in EventsAfter(stream, from) :
            /\ EventIn(stream, r).type = "BombPlaced"
            /\ ~\E x \in EventsAfter(stream, from) :
                  /\ Before(r, x)
                  /\ EventIn(stream, x).type = "BombExploded"
                  /\ EventIn(stream, x).id = EventIn(stream, r).id}}

AfterConnect(c, i) == connect_at[c].index < i
\* Frame number i of the log reached connection c in the replay of the
\* history: the history c was given ends with the frames i .. index of the
\* log, after the Hello.
InReplay(c, i) ==
    LET history == connect_at[c].history
        index == connect_at[c].index
    IN /\ i <= index
       /\ Len(history) > index - i + 1
       /\ SubSeq(history, Len(history) - (index - i), Len(history)) = SubSeq(log, i, index)
\* The frames connection c has been given up to frame number i of the log.
StreamUpTo(c, i) ==
    LET history == connect_at[c].history
        index == connect_at[c].index
    IN IF AfterConnect(c, i) THEN history \o SubSeq(log, index + 1, i)
       ELSE SubSeq(history, 1, Len(history) - (index - i))
\* The Turn frames of the log.
TurnsOfLog == {i \in 1 .. Len(log) : log[i].type = "Turn"}
\* The games of which frame number i of the log has seen the end.
GamesBefore(i) == Cardinality({k \in 1 .. i : log[k].type = "GameEnded"})

\* C23: two clients that have each applied the frames of their connection
\* up to the same Turn of the log, whenever they connected, write the same
\* Game snapshot for the GUI.
C23_SameSnapshot ==
    \A i \in TurnsOfLog : \A c1, c2 \in DOMAIN connect_at :
        /\ AfterConnect(c1, i) \/ InReplay(c1, i)
        /\ AfterConnect(c2, i) \/ InReplay(c2, i)
        => clientWrite(clientAfter(StreamUpTo(c1, i)))
             = clientWrite(clientAfter(StreamUpTo(c2, i)))

\* C23 witness: in the second game, one client has been connected since
\* the first lobby and has applied the whole first game, the other
\* connected in the middle of the second game and was given its first Turn
\* in the replay; both have applied a later Turn of the second game, in
\* which a bomb exploded, and the first client holds a block or a bomb of
\* the first game just before the second GameStarted.
C23_Witness ==
    \E i \in TurnsOfLog : \E c1, c2 \in DOMAIN connect_at :
        /\ GamesBefore(i) = 1
        /\ connect_at[c1].index = 0
        /\ GamesBefore(connect_at[c2].index) = 1
        /\ \E k \in TurnsOfLog : GamesBefore(k) = 1 /\ InReplay(c2, k)
        /\ AfterConnect(c2, i)
        /\ \E j \in 1 .. Len(log[i].events) : log[i].events[j].type = "BombExploded"
        /\ \E n \in 1 .. i :
              /\ log[n].type = "GameEnded"
              /\ clientAfter(StreamUpTo(c1, n - 1)).blocks # {}

(***************************************************************************)
(* C24: a connection that fails is cleaned up.                             *)
(***************************************************************************)
\* The reader of c has taken its catch block.
ReaderFailed(c) == c \in Clients /\ reader[c] \in {"erase", "done"}
\* The writer of c has taken its catch block.
WriterFailed(c) == c \in Clients /\ writer[c] = "done"
\* Nothing of c is left: its queue is closed and out of the queue table, c
\* has no PlayerId and no intent, and both its threads are through.
Gone(c) ==
    /\ c \in Clients
    /\ ~is_open[c]
    /\ c \notin client_message_queues
    /\ c \notin DOMAIN player_ids
    /\ c \notin DOMAIN last_messages_from_clients
    /\ writer[c] = "done"
    /\ reader[c] = "done"

\* C24: once the reader of a connection has failed (parse error or socket
\* failure), or its writer has, eventually the queue of the connection is
\* closed, the connection is in none of the queue table, the
\* client-to-player table and the intent table, and its writer has exited.
C24_FailedIsErased ==
    \A c \in 0 .. MaxClients - 1 : (ReaderFailed(c) \/ WriterFailed(c)) ~> Gone(c)

\* C24 witness: during a game a connection that had a PlayerId is gone,
\* while another connection is still served.
C24_Witness ==
    /\ ~is_lobby
    /\ \E c \in Clients :
          /\ Gone(c)
          /\ \E p \in DOMAIN gm.players : gm.players[p].address = c
          /\ \E d \in Clients \ {c} : reader[d] = "run" /\ writer[d] = "run"

(***************************************************************************)
(* C25: the failure of one connection stays with that connection.          *)
(***************************************************************************)
\* The steps of GameManager::run during a game.
GameManagerNext ==
    \/ initializeGameStep
    \/ collectLastMessagesFromClients
    \/ computeTurnStep
    \/ closeTurn
    \/ endGame
\* The game manager is never stopped in a game: its next step can be taken.
GameManagerRuns == gm.pc # "wait" => ENABLED GameManagerNext
\* Connection c is served: it is in the queue table, its queue is open and
\* its socket is not shut down.
Served(c) == c \in client_message_queues /\ is_open[c] /\ tcp_open[c]
\* A step that broadcasts a frame puts it at the end of the queue of every
\* served connection.
DeliversToServed ==
    (log' # log) =>
        \A c \in Clients : Served(c) => queue'[c] = Append(queue[c], log'[Len(log')])
\* No step pushes a frame to a queue that is closed.
NoPushAfterClose == \A c \in Clients : ~is_open[c] => queue'[c] = queue[c]

\* C25: whatever connections fail, the game manager is not stopped in a
\* game, every frame broadcast is appended to the queue of every other
\* served connection, admitted or not, and no frame is pushed to a queue
\* after it has been closed.
C25_FaultsAreIsolated ==
    []GameManagerRuns /\ [][DeliversToServed /\ NoPushAfterClose]_vars

\* The part of C25 that holds: the game manager runs and every served
\* connection gets every frame.
C25_ServedGetEveryFrame == []GameManagerRuns /\ [][DeliversToServed]_vars

\* C25 witness: a Turn is in the queue of a served connection that is not
\* a player, while the connection of a player has failed.
C25_Witness ==
    \E c, d \in Clients :
        /\ Served(c) /\ c \notin DOMAIN player_ids
        /\ queue[c] # <<>> /\ queue[c][Len(queue[c])].type = "Turn"
        /\ ~tcp_open[d]
        /\ \E q \in DOMAIN gm.players : gm.players[q].address = d

(***************************************************************************)
(* C26: the replay history after GameEnded.                                *)
(***************************************************************************)
\* The AcceptedPlayer frames among the frames from + 1 .. to of the log.
AcceptedBetween(from, to) ==
    SelectSeq(SubSeq(log, from + 1, to), LAMBDA m : m.type = "AcceptedPlayer")
\* Frame number n of the log is a GameEnded and the lobby it opens lasts up
\* to frame number to of the log.
LobbyAfter(n, to) ==
    /\ n \in 1 .. to
    /\ log[n].type = "GameEnded"
    /\ \A k \in n + 1 .. to : log[k].type = "AcceptedPlayer"

\* C26: in the lobby that follows a GameEnded the replay history is Hello
\* and then the AcceptedPlayer frames of that lobby, exactly [Hello] right
\* after the GameEnded; a connection made in that lobby was given that
\* history and, as long as its writer runs, after it nothing but the
\* frames broadcast since it connected, so no GameStarted, Turn or
\* GameEnded of the finished game.
C26_HistoryAfterGameEnded ==
    /\ \A n \in 1 .. Len(log) :
          LobbyAfter(n, Len(log)) =>
              message_history = <<Hello>> \o AcceptedBetween(n, Len(log))
    /\ \A c \in DOMAIN connect_at : \A n \in 1 .. connect_at[c].index :
          LobbyAfter(n, connect_at[c].index) =>
              /\ connect_at[c].history = <<Hello>> \o AcceptedBetween(n, connect_at[c].index)
              /\ (writer[c] = "run" /\ is_open[c]) =>
                  \E k \in 0 .. Len(log) - connect_at[c].index :
                    sent[c] \o queue[c] =
                        SubSeq(connect_at[c].history
                                 \o SubSeq(log, connect_at[c].index + 1, Len(log)),
                               1, Len(connect_at[c].history) + k)

\* C26 witness: a connection made in the lobby after a game, once a player
\* had been accepted in that lobby, and another player accepted since.
C26_Witness ==
    \E c \in DOMAIN connect_at : \E n \in 1 .. connect_at[c].index :
        /\ LobbyAfter(n, connect_at[c].index)
        /\ Len(connect_at[c].history) = 2
        /\ Len(queue[c]) = 3

(***************************************************************************)
(* The players of the game in progress and their connections.              *)
(***************************************************************************)
\* The roster of the game in progress, as GameStarted announced it.
Roster ==
    LET i == LastIndex(Len(log), {"GameStarted"})
    IN IF i = 0 THEN EmptyMap ELSE log[i].players
\* The players of the game in progress whose connection is erased: the
\* player's client is no longer in the server's tables.
Disconnected ==
    {p \in DOMAIN Roster : Roster[p].address \notin client_message_queues}
\* The cells the explosions of the turn about to be computed reach.
BlastCells ==
    UNION {calcExplosion(state.bombs[id].position, state) : id \in bombsExploding(state)}
\* A step of Server::eraseClient in a game: a connection leaves the tables.
Disconnects ==
    /\ ~is_lobby
    /\ client_message_queues' # client_message_queues
    /\ client_message_queues' \subseteq client_message_queues
\* The disconnection itself changes nothing of the game.
DisconnectKeepsGame == Disconnects => (state' = state /\ gm' = gm /\ ~is_lobby')
\* A turn treats the robot of a disconnected player like any other: in a
\* blast it is listed, scored and respawned, otherwise (no intent being
\* attributed to its PlayerId) it stays where it is, its score entry too.
TurnKeepsDisconnected ==
    (gm.pc = "compute" /\ gm'.pc = "close") =>
        \A p \in Disconnected :
            /\ p \in DOMAIN state.player_pos /\ p \in DOMAIN state'.player_pos
            /\ IF state.player_pos[p] \in BlastCells
               THEN /\ p \in RobotsIn(gm'.events)
                    /\ \E k \in MovesOf(p, gm'.events) :
                          gm'.events[k].position = state'.player_pos[p]
                    /\ p \in DOMAIN state'.scores
                    /\ state'.scores[p] = scoreAt(state.scores, p) + 1
               ELSE /\ p \notin RobotsIn(gm'.events)
                    /\ p \notin DOMAIN gm.client_messages =>
                          state'.player_pos[p] = state.player_pos[p]
                    /\ p \in DOMAIN state.scores <=> p \in DOMAIN state'.scores
                    /\ scoreAt(state'.scores, p) = scoreAt(state.scores, p)
\* The game ends after its game_length turns with the scores of the game
\* state, whoever has disconnected.
EndKeepsDisconnected ==
    (gm.pc = "end" /\ gm'.pc = "wait") =>
        /\ gm.turn = (params.game_length + 1) % UINT16_MOD
        /\ log' = Append(log, GameEnded(state.scores))
        /\ log[Len(log)].type = "Turn" /\ log[Len(log)].turn = params.game_length
\* In a game (once initialised) every player of the roster has a robot,
\* connected or not, and the game manager plays with the whole roster.
RosterStays ==
    gm.pc \in {"sleep", "compute", "close", "end"} =>
        /\ gm.players = Roster
        /\ \A p \in DOMAIN Roster : p \in DOMAIN state.player_pos

\* C27: when the client of an admitted player disconnects during a game
\* the player stays in the game: the disconnection changes neither the
\* game state nor the game manager's position, the robot keeps its cell,
\* is still destroyed (listed and scored) by a blast and respawned in the
\* same turn, its score entry is in GameEnded, and the game still has
\* game_length turns.
C27_DisconnectedStays ==
    []RosterStays
        /\ [][DisconnectKeepsGame /\ TurnKeepsDisconnected /\ EndKeepsDisconnected]_vars

\* C27 witness: a game is about to end in which a player whose client has
\* disconnected was destroyed and respawned in the last turn and has a
\* score entry.
C27_Witness ==
    /\ gm.pc = "end"
    /\ \E p \in Disconnected :
          /\ p \in RobotsIn(log[Len(log)].events)
          /\ MovesOf(p, log[Len(log)].events) # {}
          /\ p \in DOMAIN state.scores /\ state.scores[p] = 1

(***************************************************************************)
(* The order of the events of a turn.                                      *)
(***************************************************************************)
\* The k-th event of a turn's list respawns a robot: a PlayerMoved of a
\* player that one of the turn's BombExploded events lists.
IsRespawn(events, k) ==
    events[k].type = "PlayerMoved" /\ events[k].id \in RobotsIn(events)
\* The event is what the intent m of player p, standing at pos, produces.
Produces(p, m, pos, event) ==
    CASE m.type = "PlaceBomb" -> event.type = "BombPlaced" /\ event.position = pos
      [] m.type = "PlaceBlock" -> event.type = "BlockPlaced" /\ event.position = pos
      [] m.type = "Move" -> event.type = "PlayerMoved" /\ event.id = p
      [] OTHER -> FALSE
\* A list of events in three stretches: events[1 .. e] are the explosions
\* in ascending BombId, events[i + 1 .. Len] the respawns in ascending
\* PlayerId, and nothing in between is an explosion or a respawn.
Stretches(events, e, i) ==
    /\ e <= i
    /\ \A k \in 1 .. e : events[k].type = "BombExploded"
    /\ \A k \in 1 .. e - 1 : events[k].id < events[k + 1].id
    /\ \A k \in e + 1 .. i : events[k].type # "BombExploded" /\ ~IsRespawn(events, k)
    /\ \A k \in i + 1 .. Len(events) : IsRespawn(events, k)
    /\ \A k \in i + 1 .. Len(events) - 1 : events[k].id < events[k + 1].id
\* Every Turn frame of index >= 1 that was broadcast is in three stretches.
TurnFramesOrdered ==
    \A n \in 1 .. Len(log) :
        (log[n].type = "Turn" /\ log[n].turn >= 1) =>
            \E e \in 0 .. Len(log[n].events), i \in 0 .. Len(log[n].events) :
                Stretches(log[n].events, e, i)
\* The turn that is computed: its explosions are those of the bombs due,
\* its middle stretch holds one event for each of some players with an
\* intent and a surviving robot, in ascending PlayerId, and its respawns
\* are those of the robots destroyed.
TurnComputedInOrder ==
    (gm.pc = "compute" /\ gm'.pc = "close") =>
        LET events == gm'.events IN
        \E e \in 0 .. Len(events), i \in 0 .. Len(events) :
            /\ Stretches(events, e, i)
            /\ {events[k].id : k \in 1 .. e} = bombsExploding(state)
            /\ {events[k].id : k \in i + 1 .. Len(events)} = RobotsIn(events)
            /\ \E ps \in SUBSET (DOMAIN gm.client_messages \ RobotsIn(events)) :
                  /\ Cardinality(ps) = i - e
                  /\ \A j \in 1 .. i - e :
                        LET p == Ascending(ps)[j]
                        IN Produces(p, gm.client_messages[p], state.player_pos[p],
                                    events[e + j])

\* C28: in every Turn frame with index >= 1 the events come in this order:
\* first all BombExploded events in ascending BombId, then the events the
\* intents produce, in ascending PlayerId and at most one per player, then
\* the respawn PlayerMoved events in ascending PlayerId.
C28_EventsOrdered == []TurnFramesOrdered /\ [][TurnComputedInOrder]_vars

\* C28 witness: a turn is about to be closed whose events are an explosion,
\* then the event of a surviving player's intent, then the respawn of the
\* destroyed robot.
C28_Witness ==
    /\ gm.pc = "close" /\ gm.turn >= 1
    /\ Len(gm.events) = 3
    /\ gm.events[1].type = "BombExploded"
    /\ gm.events[2].type # "BombExploded" /\ ~IsRespawn(gm.events, 2)
    /\ IsRespawn(gm.events, 3)

(***************************************************************************)
(* Several explosions in one turn.                                         *)
(***************************************************************************)
\* The cells the bomb id reaches, on the board as it is before the turn.
BlastOf(id) == calcExplosion(state.bombs[id].position, state)
\* The BombExploded events of the turn that has been computed.
ExplodedNow == {k \in 1 .. Len(gm'.events) : gm'.events[k].type = "BombExploded"}
\* Each BombExploded of the turn lists the robots and the blocks that were
\* in its blast before the turn, whatever the other bombs destroy.
ExplosionsOnStateBefore ==
    (gm.pc = "compute" /\ gm'.pc = "close") =>
        /\ {gm'.events[k].id : k \in ExplodedNow} = bombsExploding(state)
        /\ \A k \in ExplodedNow :
              LET id == gm'.events[k].id IN
              /\ Range(gm'.events[k].robots_destroyed) =
                    {p \in DOMAIN state.player_pos : state.player_pos[p] \in BlastOf(id)}
              /\ Range(gm'.events[k].blocks_destroyed) = state.blocks \cap BlastOf(id)
\* A block or a robot inside two blasts is listed by both events.
ListedByBoth ==
    (gm.pc = "compute" /\ gm'.pc = "close") =>
        \A k \in ExplodedNow, l \in ExplodedNow :
            /\ \A pos \in state.blocks \cap BlastOf(gm'.events[k].id) \cap BlastOf(gm'.events[l].id) :
                  pos \in Range(gm'.events[k].blocks_destroyed)
                      /\ pos \in Range(gm'.events[l].blocks_destroyed)
            /\ \A p \in DOMAIN state.player_pos :
                  state.player_pos[p] \in BlastOf(gm'.events[k].id) \cap BlastOf(gm'.events[l].id) =>
                      p \in Range(gm'.events[k].robots_destroyed)
                          /\ p \in Range(gm'.events[l].robots_destroyed)

\* C29: when several bombs explode in one turn each explosion is computed
\* on the blocks and the robot positions as they were before any of the
\* turn's destruction: a block or robot inside two blasts is listed by
\* both BombExploded events, and a block one bomb destroys still stops the
\* arm of another bomb of the turn.
C29_ExplosionsIndependent == [][ExplosionsOnStateBefore /\ ListedByBoth]_vars

\* C29 witness: two bombs on either side of a block have exploded in one
\* turn; both events list the block, and each lists only the robot on its
\* own side, the block having stopped the arm towards the other robot.
C29_Witness ==
    /\ gm.pc = "close"
    /\ Len(gm.events) >= 2
    /\ gm.events[1].type = "BombExploded" /\ gm.events[2].type = "BombExploded"
    /\ gm.events[1].blocks_destroyed = <<Position(1, 0)>>
    /\ gm.events[2].blocks_destroyed = <<Position(1, 0)>>
    /\ gm.events[1].robots_destroyed = <<0>>
    /\ gm.events[2].robots_destroyed = <<1>>

(***************************************************************************)
(* The blocks a turn destroys and the intents of the same turn.            *)
(***************************************************************************)
\* A surviving player's Move of the turn computed aims at a cell whose
\* block one of the turn's explosions destroys.
MovesIntoDestroyed(p) ==
    /\ p \in DOMAIN gm.client_messages
    /\ gm.client_messages[p].type = "Move"
    /\ p \in DOMAIN state.player_pos
    /\ p \notin RobotsIn(gm'.events)
    /\ TargetOf(state.player_pos[p], gm.client_messages[p].direction)
          \in state.blocks \cap BlocksIn(gm'.events)
\* Such a Move finds the cell still occupied: no PlayerMoved, no change of
\* position.
DestroyedBlockStillStands ==
    (gm.pc = "compute" /\ gm'.pc = "close") =>
        \A p \in DOMAIN gm.players :
            MovesIntoDestroyed(p) =>
                /\ MovesOf(p, gm'.events) = {}
                /\ state'.player_pos[p] = state.player_pos[p]

\* C30, as claimed: within a turn the blocks that the turn's detonations
\* destroy are removed from the block set only after the intents have
\* been interpreted and the robots respawned, so a Move into a cell whose
\* block was destroyed in the same turn finds the cell occupied and emits
\* no PlayerMoved.
C30_BlocksRemovedAfterIntents == [][DestroyedBlockStillStands]_vars

\* C30 witness: a turn is about to be closed in which an explosion destroyed
\* a block and a surviving robot moved onto the cell of that block.
C30_Witness ==
    /\ gm.pc = "close"
    /\ \E k \in 1 .. Len(gm.events) :
          /\ gm.events[k].type = "PlayerMoved"
          /\ gm.events[k].id \notin RobotsIn(gm.events)
          /\ gm.events[k].position \in BlocksIn(gm.events)

(***************************************************************************)
(* The robots a turn destroys.                                             *)
(***************************************************************************)
\* The players whose robot stands in a blast of the turn to be computed.
InBlast == {p \in DOMAIN state.player_pos : state.player_pos[p] \in BlastCells}
\* The intents of the turn without those of the players in a blast.
SurvivorIntents == [p \in DOMAIN gm.client_messages \ InBlast |-> gm.client_messages[p]]
\* The turn as it would be computed had the players in a blast sent nothing.
TurnOfSurvivors == computeTurn(gm.players, SurvivorIntents, state, random)
\* The turn computed treats every robot in a blast as the claim says.
DestroyedLosesIntent ==
    (gm.pc = "compute" /\ gm'.pc = "close") =>
        /\ RobotsIn(gm'.events) = InBlast
        /\ gm'.events = TurnOfSurvivors.events
        /\ state' = TurnOfSurvivors.state
        /\ \A p \in InBlast :
              /\ p \in DOMAIN state'.scores
              /\ state'.scores[p] = scoreAt(state.scores, p) + 1
              /\ \E k \in MovesOf(p, gm'.events) :
                    /\ MovesOf(p, gm'.events) = {k}
                    /\ \A e \in Explosions(gm'.events) : e < k
                    /\ gm'.events[k].position = state'.player_pos[p]

\* C31: a player whose robot a detonation of turn t destroys has its
\* intent of turn t discarded (the turn is computed as if the player had
\* sent none), has its score raised by one, and gets exactly one
\* PlayerMoved in the turn's events, the respawn, after every BombExploded.
C31_DestroyedIntentDiscarded == [][DestroyedLosesIntent]_vars

\* C31 witness: a turn is to be computed in which a robot stands on its own
\* exploding bomb while its player asks to move to a free cell of the
\* board; the turn's events hold one PlayerMoved of that player.
C31_Witness ==
    /\ gm.pc = "compute"
    /\ \E p \in InBlast :
          /\ p \in DOMAIN gm.client_messages
          /\ gm.client_messages[p].type = "Move"
          /\ OnBoard(TargetOf(state.player_pos[p], gm.client_messages[p].direction))
          /\ TargetOf(state.player_pos[p], gm.client_messages[p].direction) \notin state.blocks
          /\ Cardinality(MovesOf(p, AfterRespawn.events)) = 1

(***************************************************************************)
(* The bombs placed in a game.                                             *)
(***************************************************************************)
\* The surviving players of the turn to be computed that ask for a bomb.
BombPlacers ==
    {p \in DOMAIN gm.client_messages \ InBlast :
        p \in DOMAIN state.player_pos /\ gm.client_messages[p].type = "PlaceBomb"}
\* The BombPlaced events of an event list, in order.
BombsPlacedIn(events) == SelectSeq(events, LAMBDA e : e.type = "BombPlaced")
\* Every PlaceBomb of a surviving player emits one BombPlaced at the cell
\* the player stands on, whatever the cell holds, with the next BombIds.
EveryPlaceBombEmits ==
    (gm.pc = "compute" /\ gm'.pc = "close") =>
        LET placed == BombsPlacedIn(gm'.events)
            placers == Ascending(BombPlacers)
        IN /\ Len(placed) = Len(placers)
           /\ \A k \in 1 .. Len(placed) :
                 /\ placed[k].position = state.player_pos[placers[k]]
                 /\ placed[k].id = state.next_bomb_id + k - 1
           /\ state'.next_bomb_id = state.next_bomb_id + Len(placed)
\* The BombId of every BombPlaced broadcast is the number of BombPlaced
\* events broadcast before it in the same game.
BombIdsCountFromZero ==
    \A e \in BombPlacedRefs :
        EventAt(e).id = Cardinality({f \in BombPlacedRefs : SameGame(e, f) /\ Before(f, e)})

\* C32: a PlaceBomb intent of a surviving player always emits BombPlaced at
\* the player's current position, also on a cell that already holds a bomb
\* or a block, and the BombIds of the BombPlaced events of one game are
\* 0, 1, 2, ... in emission order, from 0 again in every new game.
C32_BombIdsSequential == []BombIdsCountFromZero /\ [][EveryPlaceBombEmits]_vars

\* C32 witness: after a first game with a bomb, the first bomb of a second
\* game has been broadcast with BombId 0, placed on the cell of a block.
C32_Witness ==
    \E e, f \in BombPlacedRefs :
        /\ ~SameGame(e, f) /\ e[1] < f[1]
        /\ EventAt(e).id = 0 /\ EventAt(f).id = 0
        /\ \E b \in EventRefs :
              /\ SameGame(b, f) /\ Before(b, f)
              /\ EventAt(b).type = "BlockPlaced"
              /\ EventAt(b).position = EventAt(f).position

(***************************************************************************)
(* The events of Turn 0.                                                   *)
(***************************************************************************)
\* The next n values of the generator in state rnd.
RECURSIVE Draws(_, _)
Draws(rnd, n) == IF n = 0 THEN <<>> ELSE <<randomNext(rnd)>> \o Draws(randomNext(rnd), n - 1)
\* The position made of draws number 2k - 1 (x) and 2k (y).
PositionOfDraws(draws, k) ==
    Position(draws[2 * k - 1] % params.size_x, draws[2 * k] % params.size_y)
\* The events of Turn 0 of a game that starts with the generator in state
\* rnd: the robots of players 0 .. players_count - 1, then the blocks.
Turn0From(rnd) ==
    LET n == params.players_count
        draws == Draws(rnd, 2 * (n + params.initial_blocks))
    IN [k \in 1 .. n + params.initial_blocks |->
          IF k <= n THEN PlayerMoved(k - 1, PositionOfDraws(draws, k))
          ELSE BlockPlaced(PositionOfDraws(draws, k))]
\* GameManager::initializeGame produces those events and consumes those
\* draws.
InitialEventsDrawn ==
    (gm.pc = "init" /\ gm'.pc = "close") =>
        /\ gm'.events = Turn0From(random)
        /\ random' = IF params.players_count + params.initial_blocks = 0 THEN random
                     ELSE Draws(random, 2 * (params.players_count + params.initial_blocks))
                            [2 * (params.players_count + params.initial_blocks)]
\* Every Turn 0 broadcast holds players_count PlayerMoved events, of
\* players 0, 1, ... in that order, then initial_blocks BlockPlaced events.
Turn0Shape ==
    \A i \in 1 .. Len(log) :
        (log[i].type = "Turn" /\ log[i].turn = 0) =>
            /\ Len(log[i].events) = params.players_count + params.initial_blocks
            /\ \A k \in 1 .. Len(log[i].events) :
                  IF k <= params.players_count
                  THEN log[i].events[k].type = "PlayerMoved" /\ log[i].events[k].id = k - 1
                  ELSE log[i].events[k].type = "BlockPlaced"

\* C33: the Turn 0 frame of every game holds exactly players_count
\* PlayerMoved events, one per player in ascending PlayerId, then exactly
\* initial_blocks BlockPlaced events, one per draw with duplicates
\* included, and nothing else; the draws are consumed in that order, x
\* before y.
C33_Turn0Events == []Turn0Shape /\ [][InitialEventsDrawn]_vars

\* C33 witness: a Turn 0 has been broadcast with two robots on different
\* cells and two BlockPlaced events for the same cell.
C33_Witness ==
    \E i \in 1 .. Len(log) :
        /\ log[i].type = "Turn" /\ log[i].turn = 0
        /\ Len(log[i].events) = 4
        /\ log[i].events[1].position # log[i].events[2].position
        /\ log[i].events[3].position = log[i].events[4].position

(***************************************************************************)
(* Termination of the explosion computation.                               *)
(***************************************************************************)
\* A client that has been connected since the server started handles every
\* frame broadcast so far to its end.
ClientHandlesLog ==
    LET stream == <<Hello>> \o log
    IN \A k \in 1 .. Len(stream) :
          handleReturns(stream[k], clientAfter(SubSeq(stream, 1, k - 1)))

\* C34, as claimed: for every accepted explosion_radius, UINT16_MAX
\* included, the explosion computation terminates on the server (the game
\* manager leaves updateBombs in every turn) and on the client (every
\* frame is handled to its end).
C34_ExplosionTerminates ==
    /\ gm.pc = "compute" => updateBombsReturns(state)
    /\ ClientHandlesLog

\* C34 witness: with explosion_radius = UINT16_MAX a bomb is due to explode
\* in the turn the game manager is about to compute.
C34_Witness ==
    /\ params.explosion_radius = UINT16_MAX
    /\ gm.pc = "compute"
    /\ bombsExploding(state) # {}

(***************************************************************************)
(* The end of the turn loop.                                               *)
(***************************************************************************)
\* C35, as claimed: for every accepted game_length, UINT16_MAX included,
\* the turn loop ends after the Turn with index game_length: once that
\* Turn is broadcast the game manager goes on to endGame, and the next
\* broadcast of the game manager is GameEnded, never another Turn.
C35_TurnLoopEnds ==
    \A i \in 1 .. Len(log) :
        (log[i].type = "Turn" /\ log[i].turn = params.game_length) =>
            /\ \A k \in i + 1 .. Len(log) : log[k].type # "Turn"
            /\ (\A k \in i + 1 .. Len(log) : log[k].type # "GameEnded") => gm.pc = "end"

\* C35 witness: in a game of UINT16_MAX turns the Turn with index
\* game_length has been broadcast.
C35_Witness ==
    /\ params.game_length = UINT16_MAX
    /\ \E i \in 1 .. Len(log) : log[i].type = "Turn" /\ log[i].turn = params.game_length

(***************************************************************************)
(* The client's view of the game against the server's game state.          *)
(***************************************************************************)
\* The state of a client on connection c that has handled every frame the
\* server has produced for that connection.
ClientAt(c) == clientAfter(StreamUpTo(c, Len(log)))
\* The Turn frames of the game in progress in which player p was destroyed.
TurnsDestroyed(p) ==
    {i \in TurnsOfLog : /\ i > LastIndex(Len(log), {"GameStarted"})
                        /\ p \in RobotsIn(log[i].events)}
\* Between two turns the client holds the server's game state.
ClientMirrorsServer ==
    (gm.pc \in {"sleep", "end"} /\ log[Len(log)].type = "Turn") =>
        \A c \in DOMAIN connect_at :
            LET cs == ClientAt(c) IN
            /\ cs.blocks = state.blocks
            /\ cs.player_positions = state.player_pos
            /\ cs.bombs = state.bombs
            /\ \A id \in DOMAIN cs.bombs : cs.bombs[id].timer >= 1
            /\ \A p \in DOMAIN Roster :
                  p \in DOMAIN cs.scores /\ cs.scores[p] = Cardinality(TurnsDestroyed(p))
\* The turn the server computes gives the client the explosions of the
\* bombs the server detonates and the robots the server destroys.
ClientMirrorsExplosions ==
    (gm.pc = "compute" /\ gm'.pc = "close") =>
        \A c \in DOMAIN connect_at :
            LET cs == handle(Turn(gm.turn, gm'.events), ClientAt(c)) IN
            /\ cs.explosions = BlastCells
            /\ cs.robots_destroyed_in_turn = InBlast

\* C36: after a client has applied Turn k of a game, with the game's
\* GameStarted and earlier turns, its blocks, player positions and bombs
\* (ids, positions, timers, every timer >= 1) are those of the server's
\* game state at the close of turn k, its explosions are the union of the
\* blasts of the bombs the server detonated in turn k, and its score of
\* each player is the number of turns in which the server destroyed that
\* player's robot.
C36_ClientMirrorsServer == []ClientMirrorsServer /\ [][ClientMirrorsExplosions]_vars

\* C36 witness: between two turns a bomb with a timer that has run down to
\* 1 from a greater bomb_timer is on the board, after an explosion in
\* which the robot was destroyed, and the client holds the same bombs.
C36_Witness ==
    /\ gm.pc = "sleep"
    /\ params.bomb_timer > 1
    /\ \E id \in DOMAIN state.bombs : state.bombs[id].timer = 1
    /\ \E e \in BombExplodedRefs : EventAt(e).robots_destroyed # <<>>
    /\ \E c \in DOMAIN connect_at : ClientAt(c).bombs = state.bombs

(***************************************************************************)
(* C38: the tables of players at the start of a game.                      *)
(***************************************************************************)
\* The PlayerIds of a full game.
PlayerKeys == 0 .. params.players_count - 1
\* The clients the server holds a queue for: those between
\* createMessageQueue and eraseClient.
Connected == client_message_queues
\* player_ids maps exactly players_count connected clients one-to-one onto
\* the PlayerIds of a full game.
TableOneToOne ==
    /\ DOMAIN player_ids \subseteq Connected
    /\ Cardinality(DOMAIN player_ids) = params.players_count
    /\ {player_ids[c] : c \in DOMAIN player_ids} = PlayerKeys
    /\ \A c, d \in DOMAIN player_ids : player_ids[c] = player_ids[d] => c = d
\* The step of waitForPlayersToStartGame that broadcasts GameStarted.
StartsGame == gm.pc = "wait" /\ gm'.pc = "init"
StartedWithFullTables ==
    StartsGame =>
        /\ log' = Append(log, GameStarted(players))
        /\ DOMAIN players = PlayerKeys
        /\ Cardinality(DOMAIN players) = params.players_count
        /\ TableOneToOne
InPop(c) == writer[c] = "run"
\* close() has woken the writer: its pop() can throw, and it hands out
\* nothing.  An open empty queue has the writer blocked.
PopWakesAndBlocks ==
    \A c \in Clients :
        /\ (InPop(c) /\ ~is_open[c]) =>
              /\ ENABLED senderFail(c)
              /\ ~ENABLED senderSend(c)
        /\ (InPop(c) /\ is_open[c] /\ queue[c] = <<>>) =>
              /\ ~ENABLED senderSend(c)
              /\ ~ENABLED senderFail(c)
\* A second close(): the eraseClient of a reader, or the catch block of a
\* writer, on a queue that was closed before.
ClosesAgain(c) ==
    /\ ~is_open[c]
    /\ \/ reader[c] = "erase" /\ reader'[c] = "done"
       \/ writer[c] = "run" /\ writer'[c] = "done"
SecondCloseChangesNothing ==
    \A c \in Clients :
        ClosesAgain(c) => ~is_open'[c] /\ queue'[c] = queue[c] /\ sent'[c] = sent[c]
\* Nothing leaves a closed queue, and the queue stays closed.
ClosedQueueKeepsFrames ==
    \A c \in Clients :
        ~is_open[c] =>
            /\ ~is_open'[c]
            /\ sent'[c] = sent[c]
            /\ \E n \in 0 .. 1 : SubSeq(queue'[c], 1, Len(queue'[c]) - n) = queue[c]
\* While the queue is open, a frame goes in at the back and comes out at
\* the front.
OpenQueueIsFifo ==
    \A c \in Clients :
        is_open[c] =>
            /\ Len(queue'[c]) > Len(queue[c]) =>
                  /\ Len(queue'[c]) = Len(queue[c]) + 1
                  /\ SubSeq(queue'[c], 1, Len(queue[c])) = queue[c]
            /\ Len(queue'[c]) < Len(queue[c]) => queue'[c] = Tail(queue[c])
            /\ sent'[c] # sent[c] =>
                  /\ queue[c] # <<>>
                  /\ sent'[c] = Append(sent[c], Head(queue[c]))
                  /\ queue'[c] = Tail(queue[c])
QueueSteps ==
    SecondCloseChangesNothing /\ ClosedQueueKeepsFrames /\ OpenQueueIsFifo
\* C39: close() wakes a writer blocked in pop() and a second close()
\* changes nothing; once the queue is closed every pop() fails with the
\* closed error even when frames are still queued, and those frames are
\* never handed to the writer; while the queue is open pop() returns the
\* frames in push order and blocks when the queue is empty.
C39_BlockingQueue == []PopWakesAndBlocks /\ [][QueueSteps]_vars
\* A client whose writer sent a frame in order, whose queue was closed by
\* its reader with frames still queued and closed again by its writer, the
\* frames still there.
C39_Witness ==
    \E c \in Clients :
        /\ reader[c] = "done"
        /\ writer[c] = "done"
        /\ ~is_open[c]
        /\ sent[c] = <<Hello>>
        /\ queue[c] # <<>>


(***************************************************************************)
(* C40: the threads of a connection.                                       *)
(***************************************************************************)
\* Both tasks of the connection c have been taken by a thread of the pool.
HandlersRunning(c) == c \in Clients /\ reader[c] # "posted" /\ writer[c] # "posted"
\* The connections accepted before c are all still connected.
EarlierConnected(c) == \A d \in 0 .. c - 1 : d \in Clients /\ tcp_open[d]
\* C40: every accepted TCP connection eventually has both its reader and
\* its writer running, whatever the number of clients connected at the same
\* time; a frame sent on the newest connection is then eventually read.
\* Stated for the connection accepted last: each connection is the newest
\* one when it is accepted.
C40_HandlersEventuallyRun == (Newest \in Clients) ~> HandlersRunning(Newest)
\* The newest connection has its queue and its writer, all earlier clients
\* are connected, and its reader waits for a thread of the pool.
C40_Witness ==
    /\ Newest \in Clients
    /\ EarlierConnected(Newest)
    /\ writer[Newest] = "run"
    /\ reader[Newest] = "posted"
    /\ busyThreads = MAX_THREADS


(***************************************************************************)
(* C37: Server::mutex and the mutexes of the queues.                       *)
(***************************************************************************)
\* The steps a thread takes by itself: they depend on no peer.
threadStep(t) ==
    \/ lockServer(t)
    \/ lockQueue(t)
    \/ isOpen(t)
    \/ push(t)
    \/ close(t)
    \/ pop(t)
    \/ popWakes(t)
    \/ playersWakes(t)
    \/ acceptClientBody(t)
    \/ createMessageQueueBody(t)
    \/ setLastMessageBody(t)
    \/ collectLastMessagesFromClientsBody(t)
    \/ tryAcceptPlayerBody(t)
    \/ eraseClientBody(t)
    \/ waitForPlayersToStartGameBody(t)
    \/ closeTurnBody(t)
    \/ endGameBody(t)
    \/ unlockServer(t)
Proceeds(t) == ENABLED threadStep(t)
HoldsQueueMutex(t) == \E c \in DOMAIN queue_mutex : queue_mutex[c] = t
\* The holder of the mutex the thread needs for its next step, NoThread
\* when it needs none: a thread at a unique_lock, and a thread in a wait
\* whose predicate holds, which has to take the mutex again.
Awaited(t) ==
    CASE lock_pc[t].step = "lock" -> server_mutex
      [] lock_pc[t].step = "q_lock" -> queue_mutex[Target(t)]
      [] lock_pc[t] = At("pop", "wait", "pop") /\ framesOrClosed(Target(t)) ->
            queue_mutex[Target(t)]
      [] /\ lock_pc[t] = At("waitForPlayersToStartGame", "wait", "none")
         /\ playersJoined /\ shared.games < env.games -> server_mutex
      [] OTHER -> NoThread
\* The waits that can last forever.  Waiting for the network: accept(), a
\* read, and a send the peer does not take.
WaitsForNetwork(t) == lock_pc[t].step = "idle"
WaitsForFrame(t) == lock_pc[t] = At("pop", "wait", "pop") /\ ~framesOrClosed(Target(t))
\* The game manager of a run of env.games games waits after the last one.
WaitsForPlayers(t) ==
    /\ lock_pc[t] = At("waitForPlayersToStartGame", "wait", "none")
    /\ ~playersJoined \/ shared.games = env.games
Returned(t) == lock_pc[t].step = "done"
\* The thread can take its next step, or the mutex it needs is held by a
\* thread that can, or by one that needs a mutex held by a thread that can.
NotStuck(t) ==
    \/ Proceeds(t)
    \/ /\ Awaited(t) # NoThread
       /\ \/ Proceeds(Awaited(t))
          \/ /\ Awaited(Awaited(t)) # NoThread
             /\ Proceeds(Awaited(Awaited(t)))
\* A thread that holds the mutex of a queue is inside the body of the
\* queue's operation: it waits for nothing, Server::mutex included.
QueueHolderNeverWaits ==
    \A t \in Threads :
        HoldsQueueMutex(t) => lock_pc[t].step = "q_held" /\ Proceeds(t)
OnlyOutsideWaits ==
    \A t \in Threads :
        \/ Returned(t)
        \/ WaitsForNetwork(t)
        \/ WaitsForFrame(t)
        \/ WaitsForPlayers(t)
        \/ NotStuck(t)
\* C37: no interleaving of the acceptor, the readers, the writers and the
\* game manager deadlocks on Server::mutex and the mutexes of the queues: a
\* thread holding a queue mutex never waits for Server::mutex, so a thread
\* can wait forever only for the network, for a frame in an open empty
\* queue, or for players to join.
C37_NoDeadlock == QueueHolderNeverWaits /\ OnlyOutsideWaits
\* A reader or the acceptor waits for Server::mutex, held by a thread whose
\* broadcast waits for the mutex of a queue, held by the queue's writer.
C37_Witness ==
    \E t, u \in Threads :
        /\ t # u
        /\ lock_pc[t].step = "lock"
        /\ server_mutex = u
        /\ lock_pc[u].step = "q_lock"
        /\ queue_mutex[Target(u)] \notin {NoThread, t, u}
        /\ queue_mutex[Target(u)][1] = "writer"

====
